---- MODULE Spec2Model ----
(***************************************************************************)
(* Prospector: real-time portfolio risk pipeline.                          *)
(*                                                                         *)
(* Numbers that the program holds as floats are held here in fixed point:  *)
(*   volatility, expected_return, correlation     hundredths  (0.22 -> 22) *)
(*   beta                                         tenths      (1.2 -> 12)  *)
(*   position weight                 tenths of a percent     (40.0 -> 400) *)
(*   money                                        cents                    *)
(*   portfolio volatility            ten-thousandths       (0.30 -> 3000)  *)
(*   downside percentage             hundredths of a percent               *)
(* Redis stores every hash field as a string; Str is that conversion.      *)
(***************************************************************************)
EXTENDS Integers, Sequences, FiniteSets, TLC

\* ------------------------------------------------------------------ bounds
MaxIngress == 2
MaxTicks == 1
TickStep == 300
MaxCrashes == 1
MaxApiIngress == 1
MaxScanIngress == 2
MaxStreamIngress == 2
MaxForeign == 1
MaxE2EIngress == 2
MaxDownside == 16500
MinDownside == 100

\* --------------------------------------------------------------- constants
Z_SCORE == 164
RISK_FREE_RATE == 3
MIN_RISK_NUMBER == 20
MAX_RISK_NUMBER == 100
CONSERVATIVE_ADJUSTMENT == 11
AGGRESSIVE_ADJUSTMENT == 9
SAME_SECTOR_CORRELATION == 70
DIFFERENT_SECTOR_CORRELATION == 30
BETA_CORRELATION_ADJUSTMENT == 10
MIN_CORRELATION == 10
MAX_CORRELATION == 95
REDIS_TTL == 300
PERFORMANCE_LOG_INTERVAL == 100
InPartitions == 2

None == <<>>

\* ------------------------------------------------------------ small helpers
Min(a, b) == IF a <= b THEN a ELSE b
Max(a, b) == IF a >= b THEN a ELSE b
Abs(a) == IF a >= 0 THEN a ELSE -a

RECURSIVE SumSeq(_)
SumSeq(s) == IF s = <<>> THEN 0 ELSE Head(s) + SumSeq(Tail(s))

\* integer square root by bisection: the r with r*r <= x < (r+1)*(r+1)
RECURSIVE ISqrtBetween(_, _, _)
ISqrtBetween(x, lo, hi) ==
  IF lo >= hi THEN lo
  ELSE LET mid == (lo + hi + 1) \div 2
       IN IF mid * mid <= x THEN ISqrtBetween(x, mid, hi)
          ELSE ISqrtBetween(x, lo, mid - 1)
ISqrt(x) == ISqrtBetween(x, 0, 20000)

\* str(): the decimal text of a number, a string unchanged
Str(v) == IF v \in Int THEN ToString(v) ELSE v

\* ------------------------------------------------- security reference table
SecChars(v, r, b) == [volatility |-> v, expected_return |-> r, beta |-> b]

SECURITY_CHARACTERISTICS ==
  <<"A","A","P","L">> :> SecChars(22, 15, 12) @@
  <<"G","O","O","G","L">> :> SecChars(24, 14, 11) @@
  <<"M","S","F","T">> :> SecChars(20, 13, 10) @@
  <<"M","E","T","A">> :> SecChars(32, 16, 14) @@
  <<"N","V","D","A">> :> SecChars(40, 20, 18) @@
  <<"A","M","D">> :> SecChars(45, 18, 20) @@
  <<"I","N","T","C">> :> SecChars(28, 10, 11) @@
  <<"C","R","M">> :> SecChars(30, 15, 13) @@
  <<"O","R","C","L">> :> SecChars(26, 11, 9) @@
  <<"A","D","B","E">> :> SecChars(28, 14, 12) @@
  <<"J","P","M">> :> SecChars(20, 10, 11) @@
  <<"B","A","C">> :> SecChars(25, 9, 13) @@
  <<"W","F","C">> :> SecChars(23, 9, 12) @@
  <<"G","S">> :> SecChars(26, 11, 14) @@
  <<"M","S">> :> SecChars(28, 11, 15) @@
  <<"V">> :> SecChars(18, 12, 9) @@
  <<"M","A">> :> SecChars(19, 12, 10) @@
  <<"P","Y","P","L">> :> SecChars(35, 8, 16) @@
  <<"B","R","K",".","B">> :> SecChars(16, 10, 8) @@
  <<"J","N","J">> :> SecChars(14, 8, 7) @@
  <<"P","F","E">> :> SecChars(18, 7, 8) @@
  <<"U","N","H">> :> SecChars(16, 11, 8) @@
  <<"C","V","S">> :> SecChars(20, 8, 9) @@
  <<"M","R","K">> :> SecChars(17, 8, 7) @@
  <<"A","B","B","V">> :> SecChars(19, 9, 8) @@
  <<"L","L","Y">> :> SecChars(18, 10, 7) @@
  <<"T","M","O">> :> SecChars(19, 11, 9) @@
  <<"A","M","Z","N">> :> SecChars(28, 15, 13) @@
  <<"W","M","T">> :> SecChars(16, 8, 6) @@
  <<"H","D">> :> SecChars(18, 10, 9) @@
  <<"N","K","E">> :> SecChars(22, 11, 10) @@
  <<"M","C","D">> :> SecChars(15, 8, 6) @@
  <<"S","B","U","X">> :> SecChars(24, 10, 10) @@
  <<"K","O">> :> SecChars(14, 7, 6) @@
  <<"P","E","P">> :> SecChars(13, 7, 5) @@
  <<"P","G">> :> SecChars(15, 8, 6) @@
  <<"X","O","M">> :> SecChars(28, 8, 11) @@
  <<"C","V","X">> :> SecChars(30, 8, 12) @@
  <<"C","O","P">> :> SecChars(35, 9, 14) @@
  <<"D","I","S">> :> SecChars(22, 9, 11) @@
  <<"N","F","L","X">> :> SecChars(38, 15, 15) @@
  <<"T","S","L","A">> :> SecChars(50, 20, 22) @@
  <<"F">> :> SecChars(35, 6, 15) @@
  <<"G","M">> :> SecChars(32, 7, 14) @@
  <<"T">> :> SecChars(18, 6, 7) @@
  <<"V","Z">> :> SecChars(16, 6, 6) @@
  <<"C","M","C","S","A">> :> SecChars(20, 8, 9) @@
  <<"C","S","C","O">> :> SecChars(22, 8, 10) @@
  <<"I","B","M">> :> SecChars(20, 6, 9) @@
  <<"T","X","N">> :> SecChars(22, 10, 11) @@
  <<"A","V","G","O">> :> SecChars(26, 12, 13)

UpperMap ==
  [c \in {"a","b","c","d","e","f","g","h","i","j","k","l","m",
          "n","o","p","q","r","s","t","u","v","w","x","y","z"} |->
     CASE c = "a" -> "A" [] c = "b" -> "B" [] c = "c" -> "C" [] c = "d" -> "D"
       [] c = "e" -> "E" [] c = "f" -> "F" [] c = "g" -> "G" [] c = "h" -> "H"
       [] c = "i" -> "I" [] c = "j" -> "J" [] c = "k" -> "K" [] c = "l" -> "L"
       [] c = "m" -> "M" [] c = "n" -> "N" [] c = "o" -> "O" [] c = "p" -> "P"
       [] c = "q" -> "Q" [] c = "r" -> "R" [] c = "s" -> "S" [] c = "t" -> "T"
       [] c = "u" -> "U" [] c = "v" -> "V" [] c = "w" -> "W" [] c = "x" -> "X"
       [] c = "y" -> "Y" [] c = "z" -> "Z"]

\* str.upper() on a symbol held as a sequence of characters
Upper(symbol) ==
  [i \in 1..Len(symbol) |->
     IF symbol[i] \in DOMAIN UpperMap THEN UpperMap[symbol[i]] ELSE symbol[i]]

\* pat in s  (substring test)
Contains(s, pat) ==
  \E i \in 1..(Len(s) - Len(pat) + 1) : SubSeq(s, i, i + Len(pat) - 1) = pat

AnyIn(symbol, pats) == \E pat \in pats : Contains(Upper(symbol), pat)

TechPatterns == {<<"T","E","C","H">>, <<"S","O","F","T">>, <<"C","Y","B","E","R">>,
                 <<"C","L","O","U","D">>, <<"A","I">>}
FinPatterns == {<<"B","A","N","K">>, <<"C","A","P","I","T","A","L">>,
                <<"F","I","N","A","N","C","I","A","L">>, <<"F","U","N","D">>}
HealthPatterns == {<<"H","E","A","L","T","H">>, <<"B","I","O">>,
                   <<"P","H","A","R","M","A">>, <<"M","E","D">>}
EnergyPatterns == {<<"E","N","E","R","G","Y">>, <<"O","I","L">>, <<"G","A","S">>,
                   <<"S","O","L","A","R">>}

\* a lookup that tests the patterns on the symbol as written
get_security_characteristics_CaseSensitive(symbol) ==
  LET AnyExact(pats) == \E pat \in pats : Contains(symbol, pat)
  IN IF symbol \in DOMAIN SECURITY_CHARACTERISTICS THEN SECURITY_CHARACTERISTICS[symbol]
     ELSE IF AnyExact(TechPatterns) THEN SecChars(30, 12, 13)
     ELSE IF AnyExact(FinPatterns) THEN SecChars(22, 9, 11)
     ELSE IF AnyExact(HealthPatterns) THEN SecChars(20, 9, 8)
     ELSE IF AnyExact(EnergyPatterns) THEN SecChars(32, 8, 13)
     ELSE SecChars(20, 8, 10)

get_security_characteristics(symbol) ==
  IF symbol \in DOMAIN SECURITY_CHARACTERISTICS THEN SECURITY_CHARACTERISTICS[symbol]
  ELSE IF AnyIn(symbol, TechPatterns) THEN SecChars(30, 12, 13)
  ELSE IF AnyIn(symbol, FinPatterns) THEN SecChars(22, 9, 11)
  ELSE IF AnyIn(symbol, HealthPatterns) THEN SecChars(20, 9, 8)
  ELSE IF AnyIn(symbol, EnergyPatterns) THEN SecChars(32, 8, 13)
  ELSE SecChars(20, 8, 10)

\* ----------------------------------------------------------------- models.py
RiskTolerance == {"Conservative", "Moderate", "Aggressive"}
Sector == {"Technology", "Healthcare", "Finance", "Consumer", "Energy", "Real Estate",
           "Retail", "Telecom", "Entertainment", "Automotive", "Other"}

\* Position(**data): field constraints and validate_market_value
PositionValid(pos) ==
  /\ pos.quantity > 0
  /\ pos.price > 0
  /\ pos.market_value > 0
  /\ Abs(pos.market_value - pos.quantity * pos.price) <= 1
  /\ pos.weight >= 0 /\ pos.weight <= 1000
  /\ pos.sector \in Sector

\* Portfolio.validate_weights: |sum of weights - 100.0| <= 0.1
validate_weights(positions) ==
  Abs(SumSeq([i \in 1..Len(positions) |-> positions[i].weight]) - 1000) <= 1

\* Portfolio.validate_total_value: |total - sum of market values| <= 0.01
validate_total_value(v, positions) ==
  Abs(v - SumSeq([i \in 1..Len(positions) |-> positions[i].market_value])) <= 1

\* Portfolio(**data)
PortfolioValid(data) ==
  /\ Len(data.positions) >= 1
  /\ \A i \in 1..Len(data.positions) : PositionValid(data.positions[i])
  /\ validate_weights(data.positions)
  /\ data.total_value > 0
  /\ validate_total_value(data.total_value, data.positions)
  /\ data.risk_tolerance \in RiskTolerance

\* RiskCalculation(**fields): the field constraints of the result model
RiskCalculationValid(rc) ==
  /\ rc.risk_number >= 1 /\ rc.risk_number <= 100
  /\ rc.var_95 >= 0
  /\ rc.expected_return >= -100000 /\ rc.expected_return <= 100000
  /\ rc.volatility >= 0 /\ rc.volatility <= 10000
  /\ rc.calculation_time_ms >= 0

\* ------------------------------------------------------ core/calculations.py
\* an entry adjusted by the signed beta difference
CorrelationEntry_Signed(positions, i, j) ==
  IF i = j THEN 100
  ELSE LET base_corr == IF positions[i].sector = positions[j].sector
                        THEN SAME_SECTOR_CORRELATION
                        ELSE DIFFERENT_SECTOR_CORRELATION
           beta_i == get_security_characteristics(positions[i].symbol).beta
           beta_j == get_security_characteristics(positions[j].symbol).beta
           beta_adjustment == -((BETA_CORRELATION_ADJUSTMENT * Min(beta_i - beta_j, 10)) \div 10)
       IN Min(MAX_CORRELATION, Max(MIN_CORRELATION, base_corr + beta_adjustment))

\* correlation[i, j], hundredths
CorrelationEntry(positions, i, j) ==
  IF i = j THEN 100
  ELSE LET base_corr == IF positions[i].sector = positions[j].sector
                        THEN SAME_SECTOR_CORRELATION
                        ELSE DIFFERENT_SECTOR_CORRELATION
           beta_i == get_security_characteristics(positions[i].symbol).beta
           beta_j == get_security_characteristics(positions[j].symbol).beta
           beta_diff == Abs(beta_i - beta_j)
           \* -0.1 * min(beta_diff, 1.0), hundredths
           beta_adjustment == -((BETA_CORRELATION_ADJUSTMENT * Min(beta_diff, 10)) \div 10)
       IN Min(MAX_CORRELATION, Max(MIN_CORRELATION, base_corr + beta_adjustment))

calculate_correlation_matrix(positions) ==
  [i \in 1..Len(positions) |-> [j \in 1..Len(positions) |-> CorrelationEntry(positions, i, j)]]

\* the volatility-proportional 1..99 scale of the older calculator, in place of
\* the piecewise 20..100 mapping
downside_percentage_to_risk_number_Legacy(downside_pct) ==
  Min(99, Max(1, Abs(downside_pct) \div Z_SCORE))

\* a mapping that scales the middle zone linearly instead of quadratically
downside_percentage_to_risk_number_Linear(downside_pct) ==
  IF downside_pct >= 0 THEN MIN_RISK_NUMBER
  ELSE LET downside_abs == Abs(downside_pct)
       IN IF downside_abs <= 200 THEN MIN_RISK_NUMBER + (5 * downside_abs) \div 200
          ELSE IF downside_abs <= 1800 THEN 25 + (60 * (downside_abs - 200)) \div 1600
          ELSE 85 + Min((15 * (downside_abs - 1800)) \div 1200, 15)

\* a mapping whose last zone starts below the end of the middle zone
downside_percentage_to_risk_number_Dip(downside_pct) ==
  IF downside_pct >= 0 THEN MIN_RISK_NUMBER
  ELSE LET downside_abs == Abs(downside_pct)
       IN IF downside_abs <= 200 THEN MIN_RISK_NUMBER + (5 * downside_abs) \div 200
          ELSE IF downside_abs <= 1800
            THEN 25 + (60 * (downside_abs - 200) * (downside_abs - 200)) \div 2560000
          ELSE 80 + Min((20 * (downside_abs - 1800)) \div 1200, 20)

\* downside percentage (hundredths of a percent, <= 0) to the base risk number
downside_percentage_to_risk_number(downside_pct) ==
  IF downside_pct >= 0 THEN MIN_RISK_NUMBER
  ELSE LET downside_abs == Abs(downside_pct)
           risk_number ==
             IF downside_abs <= 200
               THEN MIN_RISK_NUMBER + (5 * downside_abs) \div 200
             ELSE IF downside_abs <= 1800
               THEN 25 + (60 * (downside_abs - 200) * (downside_abs - 200)) \div 2560000
             ELSE 85 + Min((15 * (downside_abs - 1800)) \div 1200, 15)
       IN Min(MAX_RISK_NUMBER, Max(MIN_RISK_NUMBER, risk_number))

\* portfolio_return (1e-5), portfolio_volatility (1e-4), sharpe_ratio (1e-2)
calculate_portfolio_metrics(weights, returns, volatilities, correlation) ==
  LET n == Len(weights)
      portfolio_return == SumSeq([i \in 1..n |-> weights[i] * returns[i]])
      cov(i, j) == volatilities[i] * volatilities[j] * correlation[i][j]
      \* (cov_matrix . weights)[i], 1e-6
      inner(i) == SumSeq([j \in 1..n |-> cov(i, j) * weights[j]]) \div 1000
      \* 1e-9
      portfolio_variance == SumSeq([i \in 1..n |-> weights[i] * inner(i)])
      portfolio_volatility == ISqrt(portfolio_variance \div 10)
      sharpe_ratio == IF portfolio_volatility > 0
                      THEN ((portfolio_return - RISK_FREE_RATE * 1000) * 10) \div portfolio_volatility
                      ELSE 0
  IN <<portfolio_return, portfolio_volatility, sharpe_ratio>>

\* -Z_SCORE * portfolio_volatility * 100, hundredths of a percent
DownsidePercentage(portfolio_volatility) == -((Z_SCORE * portfolio_volatility) \div 100)

\* VaR in cents
calculate_value_at_risk(total_value, portfolio_volatility) ==
  Abs((DownsidePercentage(portfolio_volatility) * total_value) \div 10000)

\* ---------------------------------------------------- core/risk_processor.py
\* an adjustment that rounds to the nearest integer instead of truncating
apply_risk_tolerance_adjustment_Rounded(risk_number, risk_tolerance) ==
  IF risk_tolerance = "Conservative"
    THEN Min(100, (risk_number * CONSERVATIVE_ADJUSTMENT + 5) \div 10)
  ELSE IF risk_tolerance = "Aggressive"
    THEN Max(20, (risk_number * AGGRESSIVE_ADJUSTMENT + 5) \div 10)
  ELSE risk_number

apply_risk_tolerance_adjustment(risk_number, risk_tolerance) ==
  IF risk_tolerance = "Conservative"
    THEN Min(100, (risk_number * CONSERVATIVE_ADJUSTMENT) \div 10)
  ELSE IF risk_tolerance = "Aggressive"
    THEN Max(20, (risk_number * AGGRESSIVE_ADJUSTMENT) \div 10)
  ELSE risk_number

\* a calculation that applies the tolerance adjustment to the VaR as well
RiskNumbers_AdjustedVaR(portfolio) ==
  LET positions == portfolio.positions
      n == Len(positions)
      weights == [i \in 1..n |-> positions[i].weight]
      chars == [i \in 1..n |-> get_security_characteristics(positions[i].symbol)]
      returns == [i \in 1..n |-> chars[i].expected_return]
      volatilities == [i \in 1..n |-> chars[i].volatility]
      betas == [i \in 1..n |-> chars[i].beta]
      portfolio_beta == SumSeq([i \in 1..n |-> weights[i] * betas[i]])
      correlation == calculate_correlation_matrix(positions)
      metrics == calculate_portfolio_metrics(weights, returns, volatilities, correlation)
      downside_percentage == DownsidePercentage(metrics[2])
      base == downside_percentage_to_risk_number(downside_percentage)
  IN [risk_number |-> apply_risk_tolerance_adjustment(base, portfolio.risk_tolerance),
      var_95 |-> apply_risk_tolerance_adjustment(
                  calculate_value_at_risk(portfolio.total_value, metrics[2]),
                  portfolio.risk_tolerance),
      expected_return |-> metrics[1],
      volatility |-> metrics[2],
      sharpe_ratio |-> metrics[3],
      downside_percentage |-> downside_percentage,
      portfolio_beta |-> portfolio_beta,
      downside_capture |-> portfolio_beta]

\* the numbers calculate_portfolio_risk derives from one snapshot
RiskNumbers(portfolio) ==
  LET positions == portfolio.positions
      n == Len(positions)
      weights == [i \in 1..n |-> positions[i].weight]
      chars == [i \in 1..n |-> get_security_characteristics(positions[i].symbol)]
      returns == [i \in 1..n |-> chars[i].expected_return]
      volatilities == [i \in 1..n |-> chars[i].volatility]
      betas == [i \in 1..n |-> chars[i].beta]
      portfolio_beta == SumSeq([i \in 1..n |-> weights[i] * betas[i]])
      correlation == calculate_correlation_matrix(positions)
      metrics == calculate_portfolio_metrics(weights, returns, volatilities, correlation)
      downside_percentage == DownsidePercentage(metrics[2])
      base == downside_percentage_to_risk_number(downside_percentage)
  IN [risk_number |-> apply_risk_tolerance_adjustment(base, portfolio.risk_tolerance),
      var_95 |-> calculate_value_at_risk(portfolio.total_value, metrics[2]),
      expected_return |-> metrics[1],
      volatility |-> metrics[2],
      sharpe_ratio |-> metrics[3],
      downside_percentage |-> downside_percentage,
      portfolio_beta |-> portfolio_beta,
      downside_capture |-> portfolio_beta]

\* ------------------------------------------------------------ message bus
Partitions == 0..(InPartitions - 1)
PortfolioIds == {"p1", "p2"}

\* the producer's key partitioner: a fixed hash of the key, modulo the
\* number of partitions of the topic produced to
KeyHash(key) == IF key = "p1" THEN 0 ELSE 1
PartitionOf(key, n) == KeyHash(key) % n

\* ------------------------------------------------------ ingress payloads
Pos(symbol, quantity, price, weight, sector) ==
  [symbol |-> symbol, quantity |-> quantity, price |-> price,
   market_value |-> quantity * price, weight |-> weight, sector |-> sector]

PortfolioJson(id, positions, total_value, risk_tolerance) ==
  [json |-> TRUE, id |-> id, advisor_id |-> "a1", client_id |-> "c1",
   positions |-> positions, total_value |-> total_value,
   risk_tolerance |-> risk_tolerance]

AAPL == <<"A","A","P","L">>
MSFT == <<"M","S","F","T">>
JNJ == <<"J","N","J">>
NEWAI == <<"N","E","W","A","I">>

ThreePositions ==
  <<Pos(AAPL, 2, 20000, 400, "Technology"), Pos(MSFT, 1, 45000, 450, "Technology"),
    Pos(JNJ, 1, 15000, 150, "Healthcare")>>

\* what producers put on the ingress topic: valid snapshots, a snapshot whose
\* weights do not sum to 100, and bytes that are not JSON
Payloads ==
  { PortfolioJson("p1", ThreePositions, 100000, "Moderate"),
    PortfolioJson("p1", <<Pos(NEWAI, 10, 10000, 1000, "Technology")>>, 100000, "Conservative"),
    PortfolioJson("p2", <<Pos(JNJ, 4, 15000, 1000, "Healthcare")>>, 60000, "Aggressive"),
    PortfolioJson("p2", <<Pos(JNJ, 4, 15000, 500, "Healthcare")>>, 60000, "Moderate"),
    [json |-> FALSE, id |-> "p2"] }

\* the same snapshot sent under two portfolio ids, and another one
DetPayloads ==
  { PortfolioJson("p1", ThreePositions, 100000, "Conservative"),
    PortfolioJson("p2", ThreePositions, 100000, "Conservative"),
    PortfolioJson("p2", <<Pos(JNJ, 4, 15000, 1000, "Healthcare")>>, 60000, "Aggressive") }

\* wall-clock differences (ms) the calculation can measure; time.time() is not
\* monotonic, so a difference can be negative
CalcTimes == {-1, 2}

\* --------------------------------------------------- streaming/pipeline.py
\* parse_kafka_message: (portfolio.id, portfolio), or None on any exception
parse_kafka_message(msg) ==
  IF msg.value.json /\ PortfolioValid(msg.value)
    THEN [key |-> msg.value.id, portfolio |-> msg.value]
    ELSE None

\* RiskCalculation.json(): the fields of the result model, as JSON values
RiskCalculationJson(rc) ==
  [portfolio_id |-> rc.portfolio_id, advisor_id |-> rc.advisor_id,
   risk_number |-> rc.risk_number, var_95 |-> rc.var_95,
   expected_return |-> rc.expected_return, volatility |-> rc.volatility,
   sharpe_ratio |-> rc.sharpe_ratio,
   calculation_time_ms |-> rc.calculation_time_ms, timestamp |-> rc.timestamp]

\* serialize_for_kafka: key and value of the sink message; no partition is given
serialize_for_kafka(risk_calc) ==
  [key |-> risk_calc.portfolio_id, value |-> RiskCalculationJson(risk_calc)]

\* KafkaSink: the producer picks the partition from the key
SinkPartition(sinkmsg, in_partition, n_out) == PartitionOf(sinkmsg.key, n_out)

\* ---------------------------------------------------- core/risk_processor.py
\* a result whose numbers depend on when it was computed
MakeRiskCalculation_Timed(portfolio, nums, calculation_time, now) ==
  [portfolio_id |-> portfolio.id, advisor_id |-> portfolio.advisor_id,
   risk_number |-> nums.risk_number, var_95 |-> nums.var_95 + now,
   expected_return |-> nums.expected_return, volatility |-> nums.volatility,
   sharpe_ratio |-> nums.sharpe_ratio,
   calculation_time_ms |-> calculation_time, timestamp |-> now]

\* RiskCalculation(...) as built by calculate_portfolio_risk
MakeRiskCalculation(portfolio, nums, calculation_time, now) ==
  [portfolio_id |-> portfolio.id, advisor_id |-> portfolio.advisor_id,
   risk_number |-> nums.risk_number, var_95 |-> nums.var_95,
   expected_return |-> nums.expected_return, volatility |-> nums.volatility,
   sharpe_ratio |-> nums.sharpe_ratio,
   calculation_time_ms |-> calculation_time, timestamp |-> now]

\* risk_data of _cache_results
RiskData(risk_calc, downside_percentage, portfolio_beta, downside_capture) ==
  [portfolio_id |-> risk_calc.portfolio_id,
   advisor_id |-> risk_calc.advisor_id,
   risk_number |-> Str(risk_calc.risk_number),
   var_95 |-> Str(risk_calc.var_95),
   expected_return |-> Str(risk_calc.expected_return),
   volatility |-> Str(risk_calc.volatility),
   sharpe_ratio |-> Str(risk_calc.sharpe_ratio),
   downside_percentage |-> Str(downside_percentage),
   portfolio_beta |-> Str(portfolio_beta),
   downside_capture |-> Str(downside_capture),
   calculation_time_ms |-> Str(risk_calc.calculation_time_ms),
   timestamp |-> Str(risk_calc.timestamp),
   methodology |-> "advanced_behavioral"]

\* f"portfolio:{key}"
PortfolioKey(key) == <<"portfolio", key>>
CacheKeys == {PortfolioKey(id) : id \in PortfolioIds}

\* a key that does not exist reads as the empty hash
EmptyHash == [f \in {} |-> ""]
NoTTL == -1

\* HSET key mapping: sets the given fields, keeps the others and the TTL
Hset(c, k, mapping) ==
  [c EXCEPT ![k] = [f \in DOMAIN c[k] \cup DOMAIN mapping |->
                      IF f \in DOMAIN mapping THEN mapping[f] ELSE c[k][f]]]

\* EXPIRE key seconds: sets the expiry of an existing key
Expire(e, c, k, seconds, now) ==
  IF c[k] = EmptyHash THEN e ELSE [e EXCEPT ![k] = now + seconds]

\* the results for the snapshots that can be on the topic, computed once
RiskNumbersOf == [p \in {q \in Payloads \cup DetPayloads : q.json} |-> RiskNumbers(p)]

\* ------------------------------------------------------------------- state
VARIABLES
  ingress,          \* ingress topic: partition -> sequence of messages
  egress,           \* egress topic: partition -> sequence of messages
  pos,              \* per worker: number of ingress records it is past
  pc,               \* per worker: the step it is at
  cur,              \* per worker: the item in flight
  redis_client,     \* RiskProcessor.redis_client is set (TRUE) or None (FALSE)
  cache,            \* Redis: portfolio:{id} hashes
  expireAt,         \* Redis: expiry time of each key, NoTTL when none
  gm,               \* Redis: the global:metrics hash
  perf,             \* RiskProcessor.perf_tracker
  clock,            \* wall clock, seconds
  crashes,          \* process restarts so far
  hist,             \* history: per ingress message, what became of it
  hsetWrites,       \* history: HSETs of a portfolio record that succeeded
  cacheSrc,         \* history: per key, the ingress message its record came from
  up,               \* which services can be reached: the cache, the message bus
  deps,             \* api/core/dependencies.py: the module globals of the API
  resp,             \* the last response of the API, with what held at the request
  scan,             \* the keyspace scan of an API request in progress
  stream,           \* the connection of GET /stream/risk-updates
  applied,          \* the last application of a pure function: input and result
  tracker,          \* a PerformanceTracker shared by threads, with its log
  bench             \* a benchmark worker and the producer it writes through

\* the state of the API process and of what it talks to
apiVars == <<up, deps, resp, scan, stream, applied>>

\* the state of the shared tracker and of the benchmark worker
benchVars == <<tracker, bench>>

vars == <<ingress, egress, pos, pc, cur, redis_client, cache, expireAt, gm, perf,
          clock, crashes, hist, hsetWrites, cacheSrc, apiVars, benchVars>>

Workers == Partitions

NoItem == [seq |-> 0]
NoHist == [outcome |-> "pending", cache |-> "none", attempted |-> FALSE]
WINDOW_SIZE == 1000

\* PerformanceTracker.__init__
PerformanceTracker(window_size) ==
  [messages_processed |-> 0, total_processing_time |-> 0, recent_latencies |-> <<>>,
   window_size |-> window_size]

NewPerf == PerformanceTracker(WINDOW_SIZE)

\* dependencies.py before lifespan has run
NotStarted ==
  [started |-> FALSE, redis_client |-> FALSE, kafka_producer |-> FALSE,
   redis_connected |-> FALSE, kafka_connected |-> FALSE]

NoResp == [endpoint |-> "none"]
NoScan == [endpoint |-> "none"]
NoStream == [state |-> "none"]
NoApplied == [fn |-> "none"]
NoTracker == [state |-> "none"]
NoBench == [state |-> "none"]

Produced == SumSeq([p \in 1..InPartitions |-> Len(ingress[p - 1])])

\* everything but the function applications looked at separately
InitRest ==
  /\ ingress = [p \in Partitions |-> <<>>]
  /\ \E n \in {1, InPartitions} : egress = [p \in 0..(n - 1) |-> <<>>]
  /\ pos = [w \in Workers |-> 0]
  /\ pc = [w \in Workers |-> "poll"]
  /\ cur = [w \in Workers |-> NoItem]
  /\ redis_client \in BOOLEAN
  /\ cache = [k \in CacheKeys |-> EmptyHash]
  /\ expireAt = [k \in CacheKeys |-> NoTTL]
  /\ gm = [total_calculations |-> 0, total_processing_time_ms |-> 0, last_calculation |-> None]
  /\ perf = NewPerf
  /\ clock = 0
  /\ crashes = 0
  /\ hist = [s \in 1..MaxIngress |-> NoHist]
  /\ hsetWrites = 0
  /\ cacheSrc = [k \in CacheKeys |-> 0]
  /\ up = [redis |-> TRUE, kafka |-> TRUE]
  /\ deps = NotStarted
  /\ resp = NoResp
  /\ scan = NoScan
  /\ stream = NoStream
  /\ tracker = NoTracker
  /\ bench = NoBench

Init == InitRest /\ applied = NoApplied

\* ----------------------------------------------------------------- actions
\* a producer that spreads messages over the partitions in turn, whatever the key
IngressPartition_RoundRobin(payload, produced, n) == produced % n

\* producer.produce(topic, key=portfolio.id.encode(), value=...): no partition
\* is given, the key decides it
IngressPartition(payload, produced, n) == PartitionOf(payload.id, n)

\* a producer (POST /portfolio/update, the data generator) sends a message
\* keyed by the portfolio id
IngressProduce(payload) ==
  /\ Produced < MaxIngress
  /\ LET p == IngressPartition(payload, Produced, InPartitions)
         msg == [key |-> payload.id, value |-> payload, seq |-> Produced + 1]
     IN ingress' = [ingress EXCEPT ![p] = Append(@, msg)]
  /\ UNCHANGED <<egress, pos, pc, cur, redis_client, cache, expireAt, gm, perf,
                 clock, crashes, hist, hsetWrites, cacheSrc>>
  /\ UNCHANGED <<apiVars, benchVars>>

\* the record leaves the dataflow without an output
Drop(w, seq, outcome) ==
  /\ pos' = [pos EXCEPT ![w] = @ + 1]
  /\ pc' = [pc EXCEPT ![w] = "poll"]
  /\ cur' = [cur EXCEPT ![w] = NoItem]
  /\ hist' = [hist EXCEPT ![seq].outcome = outcome]

\* a compute step that returns its result without calling _cache_results
AfterCompute_SkipCache(client) == "output"

\* "self._cache_results(...)" is called before the result is returned;
\* "if not self.redis_client: return" ends it at once
AfterCompute(client) == IF client THEN "hset" ELSE "output"

\* op.input, "parse", "filter-none", and "calculate-risk" up to the call of
\* _cache_results: decode the next record and compute its result
Calculate(w) ==
  /\ pc[w] = "poll"
  /\ pos[w] < Len(ingress[w])
  /\ LET msg == ingress[w][pos[w] + 1]
         parsed == parse_kafka_message(msg)
     IN IF parsed = None
          THEN Drop(w, msg.seq, "parse_skipped")
          ELSE \E calculation_time \in CalcTimes :
            LET portfolio == parsed.portfolio
                nums == RiskNumbersOf[portfolio]
                risk_calc == MakeRiskCalculation(portfolio, nums, calculation_time, clock)
            IN IF ~RiskCalculationValid(risk_calc)
                 THEN Drop(w, msg.seq, "compute_skipped")
                 ELSE /\ cur' = [cur EXCEPT ![w] =
                            [seq |-> msg.seq, key |-> parsed.key,
                             risk_calc |-> risk_calc,
                             risk_data |-> RiskData(risk_calc, nums.downside_percentage,
                                                    nums.portfolio_beta,
                                                    nums.downside_capture)]]
                      /\ pc' = [pc EXCEPT ![w] = AfterCompute(redis_client)]
                      /\ hist' = [hist EXCEPT ![msg.seq] =
                            [outcome |-> "computed",
                             cache |-> IF redis_client THEN "none" ELSE "noclient",
                             attempted |-> FALSE]]
                      /\ UNCHANGED pos
  /\ UNCHANGED <<ingress, egress, redis_client, cache, expireAt, gm, perf, clock,
                 crashes, hsetWrites, cacheSrc>>
  /\ UNCHANGED <<apiVars, benchVars>>

\* a cache error that is let through to calculate_portfolio_risk's own handler,
\* which returns no result
AfterCacheError_Propagate(item) == [item EXCEPT !.risk_calc = None]

\* except Exception in _cache_results: the error is logged and the caller goes on
AfterCacheError(item) == item

CacheError(w) ==
  /\ pc' = [pc EXCEPT ![w] = "output"]
  /\ cur' = [cur EXCEPT ![w] = AfterCacheError(@)]
  /\ hist' = [hist EXCEPT ![cur[w].seq].cache = "failed", ![cur[w].seq].attempted = TRUE]

\* redis_client.hset(f"portfolio:{key}", mapping=risk_data)
CacheHset(w) ==
  /\ pc[w] = "hset"
  /\ \/ /\ cache' = Hset(cache, PortfolioKey(cur[w].key), cur[w].risk_data)
        /\ pc' = [pc EXCEPT ![w] = "expire"]
        /\ hist' = [hist EXCEPT ![cur[w].seq].attempted = TRUE]
        /\ hsetWrites' = hsetWrites + 1
        /\ cacheSrc' = [cacheSrc EXCEPT ![PortfolioKey(cur[w].key)] = cur[w].seq]
        /\ UNCHANGED cur
     \/ /\ CacheError(w)
        /\ UNCHANGED <<cache, hsetWrites, cacheSrc>>
  /\ UNCHANGED <<ingress, egress, pos, redis_client, expireAt, gm, perf, clock, crashes>>
  /\ UNCHANGED <<apiVars, benchVars>>

\* redis_client.expire(f"portfolio:{key}", REDIS_TTL)
CacheExpire(w) ==
  /\ pc[w] = "expire"
  /\ \/ /\ expireAt' = Expire(expireAt, cache, PortfolioKey(cur[w].key), REDIS_TTL, clock)
        /\ pc' = [pc EXCEPT ![w] = "hincrby"]
        /\ UNCHANGED <<hist, cur>>
     \/ /\ CacheError(w)
        /\ UNCHANGED expireAt
  /\ UNCHANGED <<ingress, egress, pos, redis_client, cache, gm, perf, clock,
                 crashes, hsetWrites, cacheSrc>>
  /\ UNCHANGED <<apiVars, benchVars>>

\* redis_client.hincrby("global:metrics", "total_calculations", 1)
CacheHincrby(w) ==
  /\ pc[w] = "hincrby"
  /\ \/ /\ gm' = [gm EXCEPT !.total_calculations = @ + 1]
        /\ pc' = [pc EXCEPT ![w] = "hincrbyfloat"]
        /\ UNCHANGED <<hist, cur>>
     \/ /\ CacheError(w)
        /\ UNCHANGED gm
  /\ UNCHANGED <<ingress, egress, pos, redis_client, cache, expireAt, perf, clock,
                 crashes, hsetWrites, cacheSrc>>
  /\ UNCHANGED <<apiVars, benchVars>>

\* redis_client.hincrbyfloat("global:metrics", "total_processing_time_ms", ...)
CacheHincrbyfloat(w) ==
  /\ pc[w] = "hincrbyfloat"
  /\ \/ /\ gm' = [gm EXCEPT !.total_processing_time_ms =
                                @ + cur[w].risk_calc.calculation_time_ms]
        /\ pc' = [pc EXCEPT ![w] = "output"]
        /\ hist' = [hist EXCEPT ![cur[w].seq].cache = "ok"]
        /\ UNCHANGED cur
     \/ /\ CacheError(w)
        /\ UNCHANGED gm
  /\ UNCHANGED <<ingress, egress, pos, redis_client, cache, expireAt, perf, clock,
                 crashes, hsetWrites, cacheSrc>>
  /\ UNCHANGED <<apiVars, benchVars>>

\* a deque(maxlen) that appends without discarding the oldest entry
record_message_Unbounded(t, latency_ms) ==
  [messages_processed |-> t.messages_processed + 1,
   total_processing_time |-> t.total_processing_time + latency_ms,
   recent_latencies |-> Append(t.recent_latencies, latency_ms),
   window_size |-> t.window_size]

\* PerformanceTracker.record_message
record_message(t, latency_ms) ==
  [messages_processed |-> t.messages_processed + 1,
   total_processing_time |-> t.total_processing_time + latency_ms,
   recent_latencies |->
     IF Len(t.recent_latencies) >= t.window_size
       THEN Append(Tail(t.recent_latencies), latency_ms)
       ELSE Append(t.recent_latencies, latency_ms),
   window_size |-> t.window_size]

\* calculate_portfolio_risk after _cache_results (performance tracking, return),
\* then "filter-valid", "serialize", "filter-messages", "risk-output"
Output(w) ==
  /\ pc[w] = "output"
  /\ IF cur[w].risk_calc = None
       THEN UNCHANGED <<egress, perf>>
       ELSE /\ perf' = record_message(perf, cur[w].risk_calc.calculation_time_ms)
            /\ LET sinkmsg == serialize_for_kafka(cur[w].risk_calc)
                   p == SinkPartition(sinkmsg, w, Cardinality(DOMAIN egress))
               IN egress' = [egress EXCEPT ![p] =
                               Append(@, [key |-> sinkmsg.key, value |-> sinkmsg.value,
                                          src |-> cur[w].seq, from |-> w])]
  /\ pos' = [pos EXCEPT ![w] = @ + 1]
  /\ pc' = [pc EXCEPT ![w] = "poll"]
  /\ cur' = [cur EXCEPT ![w] = NoItem]
  /\ UNCHANGED <<ingress, redis_client, cache, expireAt, gm, clock, crashes,
                 hist, hsetWrites, cacheSrc>>
  /\ UNCHANGED <<apiVars, benchVars>>

\* time passes; Redis removes the keys whose expiry is reached
Tick ==
  /\ clock < MaxTicks * TickStep
  /\ clock' = clock + TickStep
  /\ LET gone(k) == expireAt[k] # NoTTL /\ expireAt[k] <= clock'
     IN /\ cache' = [k \in CacheKeys |-> IF gone(k) THEN EmptyHash ELSE cache[k]]
        /\ expireAt' = [k \in CacheKeys |-> IF gone(k) THEN NoTTL ELSE expireAt[k]]
  /\ UNCHANGED <<ingress, egress, pos, pc, cur, redis_client, gm, perf, crashes,
                 hist, hsetWrites, cacheSrc>>
  /\ UNCHANGED <<apiVars, benchVars>>

\* a consumer that commits an offset as soon as the message is polled
CommittedOffset_AutoCommit(w) == IF pc[w] = "poll" THEN pos[w] ELSE pos[w] + 1

\* the offset a restarted consumer resumes from: auto-commit is off and no
\* offset is ever committed, the source starts at the beginning
CommittedOffset(w) == 0

\* the pipeline process stops at any point and is started again
CrashRestart ==
  /\ crashes < MaxCrashes
  /\ crashes' = crashes + 1
  /\ pos' = [w \in Workers |-> CommittedOffset(w)]
  /\ pc' = [w \in Workers |-> "poll"]
  /\ cur' = [w \in Workers |-> NoItem]
  /\ perf' = NewPerf
  /\ UNCHANGED <<ingress, egress, redis_client, cache, expireAt, gm, clock, hist, hsetWrites, cacheSrc>>
  /\ UNCHANGED <<apiVars, benchVars>>

Next ==
  \/ \E payload \in Payloads : IngressProduce(payload)
  \/ \E w \in Workers : Calculate(w)
  \/ \E w \in Workers : CacheHset(w)
  \/ \E w \in Workers : CacheExpire(w)
  \/ \E w \in Workers : CacheHincrby(w)
  \/ \E w \in Workers : CacheHincrbyfloat(w)
  \/ \E w \in Workers : Output(w)
  \/ Tick

Spec == Init /\ [][Next]_vars

NextCrash == Next \/ CrashRestart

\* the restart behaviour is looked at with a cache client configured and the
\* egress topic partitioned like the ingress topic
InitCrash == Init /\ redis_client /\ DOMAIN egress = Partitions

SpecCrash == InitCrash /\ [][NextCrash]_vars


\* ===================================================================== API
\* ------------------------------------------------- values read from Redis
\* int(s) of a risk_number field written with str(...)
ParseInt(s) == CHOOSE n \in 0..MAX_RISK_NUMBER : ToString(n) = s

\* float(s) of a field written with str(...): the number whose text is s
ParseFloat(s) == [float |-> s]

\* redis_client.keys("portfolio:*"): the keys that exist
PortfolioKeysOf(c) == {k \in CacheKeys : c[k] # EmptyHash}

\* ------------------------------------------------- api/core/startup.py
\* a service becomes unreachable, or reachable again
ServiceDown(s) ==
  /\ up[s]
  /\ up' = [up EXCEPT ![s] = FALSE]
  /\ UNCHANGED <<ingress, egress, pos, pc, cur, redis_client, cache, expireAt, gm,
                 perf, tracker, bench, clock, crashes, hist, hsetWrites, cacheSrc>>
  /\ UNCHANGED <<deps, resp, scan, stream, applied>>

ServiceUp(s) ==
  /\ ~up[s]
  /\ up' = [up EXCEPT ![s] = TRUE]
  /\ UNCHANGED <<ingress, egress, pos, pc, cur, redis_client, cache, expireAt, gm,
                 perf, tracker, bench, clock, crashes, hist, hsetWrites, cacheSrc>>
  /\ UNCHANGED <<deps, resp, scan, stream, applied>>

\* lifespan, startup half: Redis(...) and ping() in one try, Producer(...) in
\* another. ping() raises when the cache cannot be reached. Producer(...) only
\* builds a client: with the bus unreachable it may raise or not.
Startup ==
  /\ ~deps.started
  /\ \E producer_built \in (IF up.kafka THEN {TRUE} ELSE BOOLEAN) :
       deps' = [started |-> TRUE,
                redis_client |-> up.redis, redis_connected |-> up.redis,
                kafka_producer |-> producer_built, kafka_connected |-> producer_built]
  /\ UNCHANGED <<ingress, egress, pos, pc, cur, redis_client, cache, expireAt, gm,
                 perf, tracker, bench, clock, crashes, hist, hsetWrites, cacheSrc>>
  /\ UNCHANGED <<up, resp, scan, stream, applied>>

\* ------------------------------------------------------ the responses
\* a response, with what held when the request was served
Response(endpoint, arg, status, body) ==
  [endpoint |-> endpoint, arg |-> arg, status |-> status, body |-> body,
   redis_up |-> up.redis, kafka_up |-> up.kafka,
   found |-> endpoint = "risk" /\ cache[PortfolioKey(arg)] # EmptyHash]

\* `except Exception as e: raise HTTPException(status_code=500, ...)` around
\* the body of a handler: whatever the body raised, an HTTPException raised in
\* it included, leaves as a 500
ExceptException(raised) == 500

\* ------------------------------------------------ api/routers/risk.py
\* RiskMetricsResponse(...) from the fields of the cached hash
RiskMetricsResponse(risk_data) ==
  [portfolio_id |-> risk_data.portfolio_id,
   advisor_id |-> risk_data.advisor_id,
   risk_number |-> ParseInt(risk_data.risk_number),
   var_95 |-> ParseFloat(risk_data.var_95),
   expected_return |-> ParseFloat(risk_data.expected_return),
   volatility |-> ParseFloat(risk_data.volatility),
   sharpe_ratio |-> ParseFloat(risk_data.sharpe_ratio),
   calculation_time_ms |-> ParseFloat(risk_data.calculation_time_ms),
   timestamp |-> ParseFloat(risk_data.timestamp),
   last_update |-> ParseFloat(risk_data.timestamp)]

\* GET /risk/{portfolio_id}
get_portfolio_risk(portfolio_id) ==
  IF ~deps.redis_client
    THEN Response("risk", portfolio_id, 503, None)
  ELSE IF ~up.redis
    \* hgetall raises a connection error inside the try
    THEN Response("risk", portfolio_id, ExceptException("ConnectionError"), None)
  ELSE LET risk_data == cache[PortfolioKey(portfolio_id)]
       IN IF risk_data = EmptyHash
            \* raise HTTPException(status_code=404) inside the try
            THEN Response("risk", portfolio_id, ExceptException(404), None)
            ELSE Response("risk", portfolio_id, 200, RiskMetricsResponse(risk_data))

GetPortfolioRisk(portfolio_id) ==
  /\ deps.started
  /\ resp' = get_portfolio_risk(portfolio_id)
  /\ UNCHANGED <<ingress, egress, pos, pc, cur, redis_client, cache, expireAt, gm,
                 perf, tracker, bench, clock, crashes, hist, hsetWrites, cacheSrc>>
  /\ UNCHANGED <<up, deps, scan, stream, applied>>

\* ---------------------------------------------- api/routers/health.py
\* GET /health: the status is read from the flags set by lifespan; the counts
\* come from the cache when it answers (an error there is only logged)
health_check ==
  LET readable == deps.redis_client /\ up.redis
      portfolio_keys == IF readable THEN PortfolioKeysOf(cache) ELSE {}
  IN Response("health", None, 200,
       [status |-> IF deps.redis_connected /\ deps.kafka_connected
                     THEN "healthy" ELSE "degraded",
        total_calculations |-> Cardinality(portfolio_keys),
        active_portfolios |-> Cardinality(portfolio_keys),
        redis_connected |-> deps.redis_connected,
        kafka_connected |-> deps.kafka_connected])

HealthCheck ==
  /\ deps.started
  /\ resp' = health_check
  /\ UNCHANGED <<ingress, egress, pos, pc, cur, redis_client, cache, expireAt, gm,
                 perf, tracker, bench, clock, crashes, hist, hsetWrites, cacheSrc>>
  /\ UNCHANGED <<up, deps, scan, stream, applied>>

\* --------------------------------- the handlers that scan portfolio:*
\* the orders in which keys("portfolio:*") can list the keys that exist
Orderings(S) ==
  {s \in [1..Cardinality(S) -> S] : \A i, j \in 1..Cardinality(S) : s[i] = s[j] => i = j}

\* an exception raised in the loop body of a scan
Raised == [raised |-> TRUE]

\* api/routers/portfolios.py: `if calc_data and 'risk_number' in calc_data`
\* a scan that takes every listed key to hold a record
AtRiskAccepts_Any(calc_data) == TRUE

AtRiskAccepts(calc_data) == calc_data # EmptyHash /\ "risk_number" \in DOMAIN calc_data

\* get_high_risk_portfolios: the loop body for one key
at_risk_step(acc, calc_data, risk_threshold) ==
  IF ~AtRiskAccepts(calc_data) THEN acc
  ELSE IF "risk_number" \notin DOMAIN calc_data THEN Raised
  ELSE IF ParseInt(calc_data.risk_number) >= risk_threshold
    THEN [acc EXCEPT !.out = Append(@, calc_data.portfolio_id)]
  ELSE acc

\* api/routers/analytics.py: the bucket a risk number is counted in
\* a scan that counts 70 as moderate
risk_bucket_Above70(risk_num) ==
  IF risk_num > 70 THEN "high" ELSE IF risk_num >= 30 THEN "moderate" ELSE "low"

risk_bucket(risk_num) ==
  IF risk_num >= 70 THEN "high" ELSE IF risk_num >= 30 THEN "moderate" ELSE "low"

\* get_metrics_summary: the loop body for one key. total_var is kept as the
\* terms of the sum.
summary_step(acc, calc_data) ==
  IF calc_data # EmptyHash /\ "risk_number" \in DOMAIN calc_data
    THEN LET risk_num == ParseInt(calc_data.risk_number)
             bucket == risk_bucket(risk_num)
         IN [acc EXCEPT
               !.out.risk_numbers = Append(@, risk_num),
               !.out.total_var = Append(@, ParseFloat(calc_data.var_95)),
               !.out.high_risk_count = IF risk_num >= 70 THEN @ + 1 ELSE @,
               !.out.risk_distribution[bucket] = @ + 1]
    ELSE acc

\* api/routers/advisor.py, get_advisor_portfolios: the loop body for one key;
\* nothing writes stats:{portfolio_id}, so total_calculations is 1
advisor_step(acc, calc_data, advisor_id) ==
  IF calc_data # EmptyHash /\ calc_data.advisor_id = advisor_id
    THEN [acc EXCEPT !.out = Append(@,
            [portfolio_id |-> calc_data.portfolio_id,
             last_update |-> ParseFloat(calc_data.timestamp),
             total_calculations |-> 1,
             current_risk_number |-> ParseInt(calc_data.risk_number)])]
    ELSE acc

\* what a scan starts from
ScanAcc(endpoint) ==
  IF endpoint = "summary"
    THEN [raised |-> FALSE,
          out |-> [risk_numbers |-> <<>>, total_var |-> <<>>, high_risk_count |-> 0,
                   risk_distribution |-> [low |-> 0, moderate |-> 0, high |-> 0]]]
    ELSE [raised |-> FALSE, out |-> <<>>]

ScanStep(s, calc_data) ==
  IF s.endpoint = "at-risk" THEN at_risk_step(s.acc, calc_data, s.arg)
  ELSE IF s.endpoint = "summary" THEN summary_step(s.acc, calc_data)
  ELSE advisor_step(s.acc, calc_data, s.arg)

\* MetricsSummary(...) at the end of get_metrics_summary (and the early
\* return for an empty key space, which gives the same values)
MetricsSummary(out) ==
  [total_portfolios |-> Len(out.risk_numbers),
   avg_risk_number |-> IF Len(out.risk_numbers) > 0
                         THEN SumSeq(out.risk_numbers) \div Len(out.risk_numbers) ELSE 0,
   total_value_at_risk |-> out.total_var,
   high_risk_count |-> out.high_risk_count,
   risk_distribution |-> out.risk_distribution]

\* the response of a scan that went through all listed keys, with the keys
\* listed and the records read
ScanResponse(s) ==
  [listed |-> s.keys, read |-> s.read] @@
  (IF s.acc = Raised
     THEN Response(s.endpoint, s.arg, ExceptException("KeyError"), None)
     ELSE Response(s.endpoint, s.arg, 200,
                   IF s.endpoint = "summary" THEN MetricsSummary(s.acc.out) ELSE s.acc.out))

\* the response of a scan that found the cache unreachable
ScanFailure(endpoint, arg, status) ==
  [listed |-> <<>>, read |-> <<>>] @@ Response(endpoint, arg, status, None)

\* the handler up to and including keys("portfolio:*")
ScanStart(endpoint, arg) ==
  /\ deps.started
  /\ scan = NoScan
  /\ IF ~deps.redis_client
       THEN resp' = ScanFailure(endpoint, arg, 503) /\ UNCHANGED scan
     ELSE IF ~up.redis
       THEN /\ resp' = ScanFailure(endpoint, arg, ExceptException("ConnectionError"))
            /\ UNCHANGED scan
     ELSE \E keys \in Orderings(PortfolioKeysOf(cache)) :
       LET s == [endpoint |-> endpoint, arg |-> arg, keys |-> keys, i |-> 0,
                 acc |-> ScanAcc(endpoint), read |-> <<>>]
       IN IF Len(keys) = 0
            THEN resp' = ScanResponse(s) /\ UNCHANGED scan
            ELSE scan' = s /\ UNCHANGED resp
  /\ UNCHANGED <<ingress, egress, pos, pc, cur, redis_client, cache, expireAt, gm,
                 perf, tracker, bench, clock, crashes, hist, hsetWrites, cacheSrc>>
  /\ UNCHANGED <<up, deps, stream, applied>>

\* GET /portfolios/at-risk?risk_threshold=T
GetHighRiskPortfolios(risk_threshold) == ScanStart("at-risk", risk_threshold)

\* GET /metrics/summary
GetMetricsSummary == ScanStart("summary", None)

\* GET /advisor/{advisor_id}/portfolios
GetAdvisorPortfolios(advisor_id) == ScanStart("advisor", advisor_id)

\* one turn of `for key in portfolio_keys`: hgetall(key) and the loop body;
\* after the last key the handler returns
ScanRead ==
  /\ scan # NoScan
  /\ IF ~up.redis
       THEN /\ resp' = ScanFailure(scan.endpoint, scan.arg, ExceptException("ConnectionError"))
            /\ scan' = NoScan
       ELSE LET calc_data == cache[scan.keys[scan.i + 1]]
                acc == ScanStep(scan, calc_data)
                s == [scan EXCEPT !.i = @ + 1, !.acc = acc,
                                  !.read = Append(@, calc_data)]
            IN IF acc = Raised \/ s.i = Len(s.keys)
                 THEN resp' = ScanResponse(s) /\ scan' = NoScan
                 ELSE scan' = s /\ UNCHANGED resp
  /\ UNCHANGED <<ingress, egress, pos, pc, cur, redis_client, cache, expireAt, gm,
                 perf, tracker, bench, clock, crashes, hist, hsetWrites, cacheSrc>>
  /\ UNCHANGED <<up, deps, stream, applied>>
\* ------------------------------------------------------ what is observable
\* number of egress messages derived from ingress message s
EgressCount(s) ==
  SumSeq([p \in 1..Cardinality(DOMAIN egress) |->
            Cardinality({i \in 1..Len(egress[p - 1]) : egress[p - 1][i].src = s})])

\* the fields of a RiskResult (data model of the egress and cached value)
RiskResultFields ==
  {"portfolio_id", "advisor_id", "risk_number", "var_95", "expected_return",
   "volatility", "sharpe_ratio", "downside_percentage", "portfolio_beta",
   "downside_capture", "calculation_time_ms", "timestamp"}

AllIdle == \A w \in Workers : pc[w] = "poll"

\* ------------------------------------------------------------------ claims

\* the downside percentages a result that passes RiskCalculation can have
\* (volatility in [0, 1]), in hundredths of a percent, and a little beyond
Downsides == (0 - MaxDownside)..MinDownside

\* every risk number the piecewise mapping and the tolerance adjustment yield
AdjustedRiskNumbers ==
  {apply_risk_tolerance_adjustment(downside_percentage_to_risk_number(d), t) :
     d \in Downsides, t \in RiskTolerance}

\* C1: for every accepted Portfolio and every risk tolerance, the risk_number
\* the calculator produces (by the piecewise mapping and the tolerance
\* adjustment on any downside percentage; in flight, on the egress topic, in
\* the cache) is an integer in [20, 100].
C1_RiskNumberInRange ==
  /\ AdjustedRiskNumbers \subseteq 20..100
  /\ \A w \in Workers : cur[w] # NoItem => cur[w].risk_calc.risk_number \in 20..100
  /\ \A p \in DOMAIN egress : \A i \in 1..Len(egress[p]) :
       egress[p][i].value.risk_number \in 20..100
  /\ \A k \in CacheKeys :
       cache[k] # EmptyHash => cache[k].risk_number \in {Str(n) : n \in 20..100}

\* a Conservative snapshot whose base number 100 is capped at 100, and an
\* Aggressive one, have both been published
C1_Witness ==
  /\ \E p \in DOMAIN egress : \E i \in 1..Len(egress[p]) :
       /\ egress[p][i].key = "p1" /\ egress[p][i].value.risk_number = 100
       /\ ingress[0][1].value.risk_tolerance = "Conservative"
  /\ \E p \in DOMAIN egress : \E i \in 1..Len(egress[p]) : egress[p][i].key = "p2"

\* C2 (as claimed): in every state a reader can observe, a key portfolio:{id}
\* does not exist, or holds all of its fields and has an expiry.
C2_KeyNeverWithoutTTL ==
  \A k \in CacheKeys :
    cache[k] # EmptyHash =>
      /\ DOMAIN cache[k] = RiskResultFields \cup {"methodology"}
      /\ expireAt[k] # NoTTL

\* C3 (as claimed): when no write is in progress and no cache command has
\* raised, total_calculations equals the number of per-portfolio record writes
\* performed, and last_calculation has been updated once a record was written.
C3_AggregateCountersMatchWrites ==
  (AllIdle /\ \A s \in 1..MaxIngress : hist[s].cache # "failed") =>
    /\ gm.total_calculations = hsetWrites
    /\ hsetWrites > 0 => gm.last_calculation # None

\* C4: when the cache write of a snapshot fails (a cache command raises) or no
\* cache client is configured, its RiskResult is still returned (the worker is
\* at the output step with it) and, once the worker is past the record, the
\* result is on the egress topic.
C4_CacheErrorNeverFailsPipeline ==
  \A p \in Partitions : \A i \in 1..Len(ingress[p]) :
    LET s == ingress[p][i].seq
    IN hist[s].cache \in {"failed", "noclient"} =>
         IF pos[p] >= i
           THEN EgressCount(s) >= 1
           ELSE /\ pos[p] = i - 1
                /\ pc[p] = "output"
                /\ cur[p].seq = s
                /\ cur[p].risk_calc # None

\* a cache command raised for the first record of a partition, the record was
\* published all the same, and the worker has published the next record too
C4_Witness ==
  \E p \in Partitions :
    /\ Len(ingress[p]) = 2 /\ pos[p] = 2
    /\ hist[ingress[p][1].seq].cache = "failed"
    /\ EgressCount(ingress[p][1].seq) = 1
    /\ EgressCount(ingress[p][2].seq) = 1

\* the counters the pipeline keeps
PipelineCounters == <<perf.messages_processed, gm.total_calculations>>

\* C5 (as claimed): a step that skips a record (decode, validation or
\* computation failed) advances past it, increments a counter, and writes
\* neither to the egress topic nor to the cache.
C5_SkipIsCounted ==
  [][(\E s \in 1..MaxIngress :
        /\ hist[s].outcome = "pending"
        /\ hist'[s].outcome \in {"parse_skipped", "compute_skipped"})
     => /\ egress' = egress /\ cache' = cache /\ gm' = gm
        /\ pos' # pos
        /\ PipelineCounters' # PipelineCounters]_vars

\* C6: at-least-once across restarts. Every record that a worker is past, or
\* that lies below the offset a restart resumes from, and whose result was
\* computed, has at least one egress message and its cache write was attempted.
C6_AtLeastOnce ==
  \A p \in Partitions : \A i \in 1..Len(ingress[p]) :
    LET s == ingress[p][i].seq
    IN (i <= Max(pos[p], CommittedOffset(p)) /\ hist[s].outcome = "computed") =>
         /\ EgressCount(s) >= 1
         /\ hist[s].attempted

\* the process was restarted, every worker has worked its partition off again,
\* and a record published before the restart was published a second time
C6_Witness ==
  /\ crashes = 1
  /\ \A p \in Partitions : pos[p] = Len(ingress[p]) /\ pc[p] = "poll"
  /\ \E s \in 1..MaxIngress : EgressCount(s) = 2 /\ hist[s].attempted

C8_SamePartitionAsIngress ==
  \A p \in DOMAIN egress : \A i \in 1..Len(egress[p]) :
    /\ egress[p][i].key = egress[p][i].value.portfolio_id
    /\ p = egress[p][i].from

\* C9 (as claimed): each write of the record of a portfolio (HSET and EXPIRE
\* both returned) leaves the key with the fields of that record and its TTL
\* reset to 300 s.
C9_EachWriteResetsTTL ==
  [][\A w \in Workers :
       (pc[w] = "expire" /\ pc'[w] = "hincrby") =>
         /\ cache'[PortfolioKey(cur[w].key)] = cur[w].risk_data
         /\ expireAt'[PortfolioKey(cur[w].key)] = clock + REDIS_TTL]_vars

\* C10 (as claimed): the egress message and the cached record of one RiskResult
\* both carry every RiskResult field, with equal values; the cached record has
\* the extra field methodology and nothing else.
C10_EgressEqualsCached ==
  \A p \in DOMAIN egress : \A i \in 1..Len(egress[p]) : \A k \in CacheKeys :
    (cache[k] # EmptyHash /\ cacheSrc[k] = egress[p][i].src) =>
      /\ RiskResultFields \subseteq DOMAIN egress[p][i].value
      /\ DOMAIN cache[k] \ DOMAIN egress[p][i].value = {"methodology"}
      /\ \A f \in RiskResultFields : cache[k][f] = Str(egress[p][i].value[f])
      /\ cache[k].methodology = "advanced_behavioral"


\* ------------------------------------------------------- the API, running
\* the API next to the pipeline, with the services going down and coming back
\* the pipeline as far as the API needs it: a bounded number of snapshots on
\* the ingress topic, and the cache answering the pipeline's commands
PipelineStep ==
  /\ Next
  /\ Produced' <= MaxApiIngress
  /\ \A s \in 1..MaxIngress : hist'[s].cache # "failed"

NextApi ==
  \/ PipelineStep
  \/ \E s \in {"redis", "kafka"} : ServiceDown(s)
  \/ \E s \in {"redis", "kafka"} : ServiceUp(s)
  \/ Startup
  \/ \E id \in PortfolioIds : GetPortfolioRisk(id)
  \/ HealthCheck

SpecApi == InitCrash /\ [][NextApi]_vars

\* C11 (as claimed): GET /risk/{portfolio_id}, served with a cache client and
\* the cache reachable while no record is under portfolio:{portfolio_id},
\* answers 404.
C11_AbsentRecordIs404 ==
  (resp.endpoint = "risk" /\ deps.redis_client /\ resp.redis_up /\ ~resp.found)
    => resp.status = 404

\* C12 (as claimed): a cache-reading endpoint served while the cache is
\* unreachable answers 503, whether or not the cache was reachable at startup.
C12_UnreachableCacheIs503 ==
  (resp.endpoint \in {"risk", "at-risk", "advisor", "summary"} /\ ~resp.redis_up)
    => resp.status = 503

\* C13 (as claimed): the status of GET /health is "healthy" exactly when the
\* message bus and the cache are both reachable at the request.
C13_HealthyIffBothReachable ==
  resp.endpoint = "health" =>
    (resp.body.status = "healthy" <=> (resp.redis_up /\ resp.kafka_up))

\* ------------------------------------------------ the scanning handlers
\* thresholds and advisors asked for
Thresholds == {70, 90}
AdvisorIds == {"a1", "a2"}

\* the pipeline next to a scan: a bounded number of snapshots on the ingress
\* topic, and the cache answering the pipeline's commands
ScanPipelineStep ==
  /\ Next
  /\ Produced' <= MaxScanIngress
  /\ \A s \in 1..MaxIngress : hist'[s].cache # "failed"

\* one request is looked at per behaviour
FirstRequest(Handler) == resp = NoResp /\ Handler

NextScan ==
  \/ ScanPipelineStep
  \/ Startup
  \/ \E T \in Thresholds : FirstRequest(GetHighRiskPortfolios(T))
  \/ FirstRequest(GetMetricsSummary)
  \/ \E a \in AdvisorIds : FirstRequest(GetAdvisorPortfolios(a))
  \/ ScanRead

SpecScan == InitCrash /\ [][NextScan]_vars

\* the places in the records read by a scan that hold a record
Held(read) == {i \in 1..Len(read) : read[i] # EmptyHash}

\* C14: with the cache reachable, GET /portfolios/at-risk?risk_threshold=T
\* answers 200 with exactly the portfolio ids of the records it read whose
\* risk_number >= T, in the order read; a listed key that expired before it was
\* read is skipped, and every record read is whole.
C14_AtRiskReturnsReadAboveThreshold ==
  resp.endpoint = "at-risk" =>
    LET read == resp.read
        hits == {i \in Held(read) : ParseInt(read[i].risk_number) >= resp.arg}
    IN /\ resp.status = 200
       /\ Len(read) = Len(resp.listed)
       /\ \A i \in Held(read) : DOMAIN read[i] = RiskResultFields \cup {"methodology"}
       /\ Len(resp.body) = Cardinality(hits)
       /\ {resp.body[a] : a \in 1..Len(resp.body)} = {read[i].portfolio_id : i \in hits}
       /\ \A a, b \in 1..Len(resp.body) : a < b =>
            \E i, j \in hits : /\ i < j
                               /\ read[i].portfolio_id = resp.body[a]
                               /\ read[j].portfolio_id = resp.body[b]

\* a scan listed two keys, one of them expired before it was read, and the
\* other one is returned
C14_Witness ==
  /\ resp.endpoint = "at-risk" /\ resp.status = 200
  /\ Len(resp.listed) = 2
  /\ \E i \in 1..2 : resp.read[i] = EmptyHash
  /\ Len(resp.body) = 1

\* C15: the buckets of GET /metrics/summary. A risk number is low iff < 30,
\* moderate iff in [30, 70), high iff >= 70; every record read is counted in
\* exactly its bucket, low + moderate + high = total_portfolios, and
\* high_risk_count is the high bucket.
C15_SummaryBuckets ==
  /\ \A r \in 0..MAX_RISK_NUMBER :
       /\ risk_bucket(r) = "low" <=> r < 30
       /\ risk_bucket(r) = "moderate" <=> (30 <= r /\ r < 70)
       /\ risk_bucket(r) = "high" <=> r >= 70
  /\ resp.endpoint = "summary" =>
       LET read == resp.read
           d == resp.body.risk_distribution
           n(i) == ParseInt(read[i].risk_number)
       IN /\ resp.status = 200
          /\ resp.body.total_portfolios = Cardinality(Held(read))
          /\ d.low = Cardinality({i \in Held(read) : n(i) < 30})
          /\ d.moderate = Cardinality({i \in Held(read) : 30 <= n(i) /\ n(i) < 70})
          /\ d.high = Cardinality({i \in Held(read) : n(i) >= 70})
          /\ d.low + d.moderate + d.high = resp.body.total_portfolios
          /\ resp.body.high_risk_count = d.high

\* a summary over two listed keys of which one expired during the scan, and a
\* summary over an empty key space
C15_Witness ==
  /\ resp.endpoint = "summary" /\ resp.status = 200
  /\ Len(resp.listed) = 2
  /\ resp.body.total_portfolios = 1
  /\ resp.body.risk_distribution.high = 1

\* ------------------------------------------- functions applied to an input
\* ingress payloads as any producer can send them: every field of a
\* one-position snapshot at, next to and beyond what the model accepts
CandidatePositions ==
  {<<>>} \cup
  { <<[symbol |-> symbol, quantity |-> quantity, price |-> 15000,
       market_value |-> quantity * 15000 + mv_off, weight |-> weight,
       sector |-> "Healthcare"]>> :
      symbol \in {<<>>, JNJ}, quantity \in {0, 4}, mv_off \in {0, 1, 2},
      weight \in {999, 1000, 1001, 1002} }

CandidatePayloads ==
  { [json |-> TRUE, id |-> id, advisor_id |-> advisor_id, client_id |-> client_id,
     positions |-> positions,
     total_value |-> SumSeq([i \in 1..Len(positions) |-> positions[i].market_value]) + tv_off,
     risk_tolerance |-> "Moderate"] :
      id \in {"", "p1"}, advisor_id \in {"", "a1"}, client_id \in {"", "c1"},
      positions \in CandidatePositions, tv_off \in {0, 1, 2} }

\* base risk numbers and tolerances the adjustment is applied to
AdjustmentInputs == (MIN_RISK_NUMBER..MAX_RISK_NUMBER) \X RiskTolerance

\* symbols looked up: every symbol of the reference table, and symbols that
\* are not in it
TSLA == <<"T","S","L","A">>
PEP == <<"P","E","P">>
XYZ == <<"X","Y","Z">>
UnknownSymbols ==
  { NEWAI, <<"n","e","w","a","i">>, <<"M","Y","B","A","N","K">>,
    <<"B","I","O","F","U","N","D">>, <<"T","E","C","H","B","A","N","K">>,
    <<"O","I","L","M","E","D">>, <<"S","O","L","A","R">>, <<"G","a","s">>,
    XYZ, <<"a","a","p","l">>, <<>> }
LookupSymbols == DOMAIN SECURITY_CHARACTERISTICS \cup UnknownSymbols

\* position lists a correlation matrix is built for
CorrPositions ==
  { Pos(AAPL, 1, 10000, 0, "Technology"), Pos(MSFT, 1, 10000, 0, "Technology"),
    Pos(JNJ, 1, 10000, 0, "Healthcare"), Pos(TSLA, 1, 10000, 0, "Automotive"),
    Pos(PEP, 1, 10000, 0, "Consumer"), Pos(AAPL, 1, 10000, 0, "Healthcare") }
CorrPositionLists ==
  {<<>>} \cup {<<a>> : a \in CorrPositions} \cup (CorrPositions \X CorrPositions)
    \cup (CorrPositions \X CorrPositions \X CorrPositions)

\* snapshots the calculation is applied to: one position of every accepted
\* (and one rejected) weight, and several positions; every risk tolerance
CalcPositionLists ==
  { <<Pos(symbol, 4, 15000, weight, "Other")>> :
      symbol \in {JNJ, TSLA, NEWAI, PEP, XYZ}, weight \in {999, 1000, 1001} }
  \cup { ThreePositions,
         <<Pos(AAPL, 3, 20000, 600, "Technology"), Pos(JNJ, 4, 10000, 400, "Healthcare")>> }
CalcPortfolios ==
  { PortfolioJson("p1", positions,
                  SumSeq([i \in 1..Len(positions) |-> positions[i].market_value]),
                  risk_tolerance) :
      positions \in CalcPositionLists, risk_tolerance \in RiskTolerance }

Input(fn, input) == [fn |-> "input", for |-> fn, input |-> input]
Applied(fn, input, output) == [fn |-> fn, input |-> input, output |-> output]

InitPure ==
  /\ InitRest /\ redis_client /\ DOMAIN egress = Partitions
  /\ \/ \E p \in CandidatePayloads : applied = Input("parse_kafka_message", p)
     \/ \E d \in Downsides : applied = Input("downside_percentage_to_risk_number", d)
     \/ \E x \in AdjustmentInputs : applied = Input("_apply_risk_tolerance_adjustment", x)
     \/ \E symbol \in LookupSymbols : applied = Input("get_security_characteristics", symbol)
     \/ \E ps \in CorrPositionLists : applied = Input("calculate_correlation_matrix", ps)
     \/ \E p \in CalcPortfolios : applied = Input("calculate_portfolio_risk", p)

\* streaming/pipeline.py parse_kafka_message (and the Portfolio body of
\* POST /portfolio/update, validated by the same model)
ParseKafkaMessage ==
  /\ applied.fn = "input" /\ applied.for = "parse_kafka_message"
  /\ applied' = Applied("parse_kafka_message", applied.input,
                        parse_kafka_message([value |-> applied.input]))
  /\ UNCHANGED <<ingress, egress, pos, pc, cur, redis_client, cache, expireAt, gm, perf, tracker, bench,
                 clock, crashes, hist, hsetWrites, cacheSrc, up, deps, resp, scan, stream>>

\* core/calculations.py downside_percentage_to_risk_number
DownsidePercentageToRiskNumber ==
  /\ applied.fn = "input" /\ applied.for = "downside_percentage_to_risk_number"
  /\ applied' = Applied("downside_percentage_to_risk_number", applied.input,
                        downside_percentage_to_risk_number(applied.input))
  /\ UNCHANGED <<ingress, egress, pos, pc, cur, redis_client, cache, expireAt, gm, perf, tracker, bench,
                 clock, crashes, hist, hsetWrites, cacheSrc, up, deps, resp, scan, stream>>

\* core/risk_processor.py _apply_risk_tolerance_adjustment
ApplyRiskToleranceAdjustment ==
  /\ applied.fn = "input" /\ applied.for = "_apply_risk_tolerance_adjustment"
  /\ applied' = Applied("_apply_risk_tolerance_adjustment", applied.input,
                        apply_risk_tolerance_adjustment(applied.input[1], applied.input[2]))
  /\ UNCHANGED <<ingress, egress, pos, pc, cur, redis_client, cache, expireAt, gm, perf, tracker, bench,
                 clock, crashes, hist, hsetWrites, cacheSrc, up, deps, resp, scan, stream>>

\* config/securities.py get_security_characteristics
GetSecurityCharacteristics ==
  /\ applied.fn = "input" /\ applied.for = "get_security_characteristics"
  /\ applied' = Applied("get_security_characteristics", applied.input,
                        get_security_characteristics(applied.input))
  /\ UNCHANGED <<ingress, egress, pos, pc, cur, redis_client, cache, expireAt, gm, perf, tracker, bench,
                 clock, crashes, hist, hsetWrites, cacheSrc, up, deps, resp, scan, stream>>

\* core/calculations.py calculate_correlation_matrix
CalculateCorrelationMatrix ==
  /\ applied.fn = "input" /\ applied.for = "calculate_correlation_matrix"
  /\ applied' = Applied("calculate_correlation_matrix", applied.input,
                        calculate_correlation_matrix(applied.input))
  /\ UNCHANGED <<ingress, egress, pos, pc, cur, redis_client, cache, expireAt, gm, perf, tracker, bench,
                 clock, crashes, hist, hsetWrites, cacheSrc, up, deps, resp, scan, stream>>

\* what calculate_portfolio_risk makes of a snapshot that validation accepted:
\* the numbers, the record it caches and the value it hands to the sink
calculate_portfolio_risk(portfolio) ==
  LET nums == RiskNumbers(portfolio)
      risk_calc == MakeRiskCalculation(portfolio, nums, 2, 0)
  IN [nums |-> nums,
      cached |-> RiskData(risk_calc, nums.downside_percentage, nums.portfolio_beta,
                          nums.downside_capture),
      egress |-> serialize_for_kafka(risk_calc).value]

\* parse_kafka_message, then core/risk_processor.py calculate_portfolio_risk
CalculatePortfolioRisk ==
  /\ applied.fn = "input" /\ applied.for = "calculate_portfolio_risk"
  /\ applied' = Applied("calculate_portfolio_risk", applied.input,
                        IF parse_kafka_message([value |-> applied.input]) = None
                          THEN None ELSE calculate_portfolio_risk(applied.input))
  /\ UNCHANGED <<ingress, egress, pos, pc, cur, redis_client, cache, expireAt, gm, perf, tracker, bench,
                 clock, crashes, hist, hsetWrites, cacheSrc, up, deps, resp, scan, stream>>

NextPure ==
  \/ ParseKafkaMessage
  \/ DownsidePercentageToRiskNumber
  \/ ApplyRiskToleranceAdjustment
  \/ GetSecurityCharacteristics
  \/ CalculateCorrelationMatrix
  \/ CalculatePortfolioRisk

SpecPure == InitPure /\ [][NextPure]_vars

\* C16 (as claimed): a payload is accepted only if id, advisor_id, client_id and
\* every position symbol are non-empty, there is at least one position, each
\* position has quantity, price, market_value > 0, |market_value -
\* quantity*price| <= 0.01 and weight in [0,100], total_value > 0,
\* |total_value - sum of market_value| <= 0.01 and |sum of weight - 100| <= 0.1.
C16_AcceptedOnlyIfEveryInvariant ==
  (applied.fn = "parse_kafka_message" /\ applied.output # None) =>
    LET p == applied.input
        ps == p.positions
    IN /\ p.id # "" /\ p.advisor_id # "" /\ p.client_id # ""
       /\ Len(ps) >= 1
       /\ \A i \in 1..Len(ps) :
            /\ ps[i].symbol # <<>>
            /\ ps[i].quantity > 0 /\ ps[i].price > 0 /\ ps[i].market_value > 0
            /\ Abs(ps[i].market_value - ps[i].quantity * ps[i].price) <= 1
            /\ ps[i].weight >= 0 /\ ps[i].weight <= 1000
       /\ p.total_value > 0
       /\ Abs(p.total_value - SumSeq([i \in 1..Len(ps) |-> ps[i].market_value])) <= 1
       /\ Abs(SumSeq([i \in 1..Len(ps) |-> ps[i].weight]) - 1000) <= 1

\* C19: the base risk number of a downside percentage D (hundredths of a
\* percent), d = |D|, is the integer part of: 20 if D >= 0; 20 + (d/2)*5 if
\* d <= 2; 25 + ((d-2)/16)^2 * 60 if 2 < d <= 18; 85 + min((d-18)/12, 1)*15 if
\* d > 18; within [20,100]. D = -3.28 gives 25 and every d >= 30 gives 100.
C19_BaseRiskNumberPiecewise ==
  applied.fn = "downside_percentage_to_risk_number" =>
    LET D == applied.input
        d == IF D < 0 THEN 0 - D ELSE D
        r == applied.output
    IN /\ r \in 20..100
       /\ D >= 0 => r = 20
       /\ (D < 0 /\ d <= 200) =>
            /\ (r - 20) * 200 <= 5 * d
            /\ 5 * d < (r - 19) * 200
       /\ (D < 0 /\ 200 < d /\ d <= 1800) =>
            /\ (r - 25) * 2560000 <= 60 * (d - 200) * (d - 200)
            /\ 60 * (d - 200) * (d - 200) < (r - 24) * 2560000
       /\ (D < 0 /\ 1800 < d /\ d < 3000) =>
            /\ (r - 85) * 1200 <= 15 * (d - 1800)
            /\ 15 * (d - 1800) < (r - 84) * 1200
       /\ (D < 0 /\ d >= 3000) => r = 100
       /\ D = -328 => r = 25

\* the mapping applied to D = -3.28
C19_Witness ==
  /\ applied.fn = "downside_percentage_to_risk_number"
  /\ applied.input = -328
  /\ applied.output = 25

\* C20: the adjustment of a base risk number r is min(100, floor(r * 1.1)) for
\* Conservative, max(20, floor(r * 0.9)) for Aggressive and r for Moderate, and
\* the calculation applies it once, to the base mapping of the downside
\* percentage.
C20_BehavioralAdjustment ==
  applied.fn = "_apply_risk_tolerance_adjustment" =>
    LET r == applied.input[1]
        t == applied.input[2]
        o == applied.output
        Floor(num, den) == CHOOSE f \in 0..(2 * MAX_RISK_NUMBER) :
                             f * den <= num /\ num < (f + 1) * den
        Adjusted(b, tol) == IF tol = "Conservative" THEN Min(100, Floor(11 * b, 10))
                            ELSE IF tol = "Aggressive" THEN Max(20, Floor(9 * b, 10))
                            ELSE b
    IN /\ o = Adjusted(r, t)
       /\ \A p \in DOMAIN RiskNumbersOf :
            RiskNumbersOf[p].risk_number =
              Adjusted(downside_percentage_to_risk_number(RiskNumbersOf[p].downside_percentage),
                       p.risk_tolerance)

\* a Conservative adjustment that reaches the cap, from a base number below it
C20_Witness ==
  /\ applied.fn = "_apply_risk_tolerance_adjustment"
  /\ applied.input = <<95, "Conservative">>
  /\ applied.output = 100

\* ------------------------------------------------ api/routers/streaming.py
\* what a producer other than the pipeline can leave on the egress topic
ForeignKinds == {"invalid-utf8", "invalid-json", "json-array"}
IsForeign(msg) == "foreign" \in DOMAIN msg.value
Foreign == SumSeq([p \in 1..InPartitions |->
             Cardinality({i \in 1..Len(egress[p - 1]) : IsForeign(egress[p - 1][i])})])

ForeignProduce(kind, p) ==
  /\ Foreign < MaxForeign
  /\ egress' = [egress EXCEPT ![p] =
                  Append(@, [key |-> "x", value |-> [foreign |-> kind], src |-> 0, from |-> p])]
  /\ UNCHANGED <<ingress, pos, pc, cur, redis_client, cache, expireAt, gm, perf, tracker, bench,
                 clock, crashes, hist, hsetWrites, cacheSrc>>
  /\ UNCHANGED apiVars

\* msg.value().decode('utf-8'): the text, or UnicodeDecodeError
Decode(msg) ==
  IF IsForeign(msg) /\ msg.value.foreign = "invalid-utf8"
    THEN [raised |-> "UnicodeDecodeError"] ELSE [text |-> msg.value]

\* json.loads(text): the JSON value, or json.JSONDecodeError
JsonLoads(text) ==
  IF "foreign" \in DOMAIN text /\ text.foreign = "invalid-json"
    THEN [raised |-> "JSONDecodeError"] ELSE [data |-> text]

\* `except json.JSONDecodeError`: the exceptions the inner try handles
StreamCatches(exception) == exception = "JSONDecodeError"

\* the body of the loop for one message without error: "emit", "skip", or the
\* exception that leaves the loop
stream_message(msg, portfolio_id) ==
  LET decoded == Decode(msg)
  IN IF "raised" \in DOMAIN decoded
       THEN IF StreamCatches(decoded.raised) THEN [do |-> "skip"]
            ELSE [do |-> "raise", exception |-> decoded.raised]
     ELSE LET loaded == JsonLoads(decoded.text)
          IN IF "raised" \in DOMAIN loaded
               THEN IF StreamCatches(loaded.raised) THEN [do |-> "skip"]
                    ELSE [do |-> "raise", exception |-> loaded.raised]
             ELSE IF portfolio_id # ""
               THEN \* data.get('portfolio_id'): only a JSON object has .get
                    IF "portfolio_id" \notin DOMAIN loaded.data
                      THEN IF StreamCatches("AttributeError") THEN [do |-> "skip"]
                           ELSE [do |-> "raise", exception |-> "AttributeError"]
                    ELSE IF loaded.data.portfolio_id # portfolio_id
                      THEN [do |-> "skip"]
                    ELSE [do |-> "emit"]
             ELSE [do |-> "emit"]

\* GET /stream/risk-updates: a consumer with a group id of its own, subscribed
\* at `latest`
StreamOpen(portfolio_id) ==
  /\ stream = NoStream
  /\ stream' = [state |-> "open", portfolio_id |-> portfolio_id, consumer |-> "open",
                next |-> [p \in DOMAIN egress |-> Len(egress[p])],
                emitted |-> <<>>, skipped |-> <<>>, end |-> "none"]
  /\ UNCHANGED <<ingress, egress, pos, pc, cur, redis_client, cache, expireAt, gm, perf, tracker, bench,
                 clock, crashes, hist, hsetWrites, cacheSrc, up, deps, resp, scan, applied>>

\* the generator leaves the loop; `finally: consumer.close()`
StreamEnded(s, why) == [s EXCEPT !.state = "closed", !.consumer = "closed", !.end = why]

\* consumer.poll(1.0) returns the next message of a partition
StreamPoll(p) ==
  /\ stream # NoStream /\ stream.state = "open"
  /\ stream.next[p] < Len(egress[p])
  /\ LET msg == egress[p][stream.next[p] + 1]
         at == [partition |-> p, offset |-> stream.next[p] + 1]
         s == [stream EXCEPT !.next[p] = @ + 1]
         r == stream_message(msg, stream.portfolio_id)
     IN stream' = IF r.do = "emit" THEN [s EXCEPT !.emitted = Append(@, at)]
                  ELSE IF r.do = "skip" THEN [s EXCEPT !.skipped = Append(@, at)]
                  ELSE StreamEnded(s, r.exception)
  /\ UNCHANGED <<ingress, egress, pos, pc, cur, redis_client, cache, expireAt, gm, perf, tracker, bench,
                 clock, crashes, hist, hsetWrites, cacheSrc, up, deps, resp, scan, applied>>

\* consumer.poll(1.0) returns an error other than _PARTITION_EOF: break
StreamBusError ==
  /\ stream # NoStream /\ stream.state = "open"
  /\ stream' = StreamEnded(stream, "bus error")
  /\ UNCHANGED <<ingress, egress, pos, pc, cur, redis_client, cache, expireAt, gm, perf, tracker, bench,
                 clock, crashes, hist, hsetWrites, cacheSrc, up, deps, resp, scan, applied>>

\* the client goes away: the generator is cancelled where it awaits
ClientDisconnect ==
  /\ stream # NoStream /\ stream.state = "open"
  /\ stream' = StreamEnded(stream, "client disconnect")
  /\ UNCHANGED <<ingress, egress, pos, pc, cur, redis_client, cache, expireAt, gm, perf, tracker, bench,
                 clock, crashes, hist, hsetWrites, cacheSrc, up, deps, resp, scan, applied>>

\* the pipeline next to a stream: a bounded number of snapshots, the cache
\* answering, no expiry looked at
StreamPipelineStep ==
  /\ Next
  /\ Produced' <= MaxStreamIngress
  /\ clock' = clock
  /\ \A s \in 1..MaxIngress : hist'[s].cache # "failed"

\* portfolio_id: Optional[str] = None; absent and empty are both falsy in
\* `if portfolio_id and ...`
StreamFilters == {""} \cup PortfolioIds

NextStream ==
  \/ StreamPipelineStep
  \/ \E kind \in ForeignKinds, p \in Partitions : ForeignProduce(kind, p)
  \/ \E portfolio_id \in StreamFilters : StreamOpen(portfolio_id)
  \/ \E p \in Partitions : StreamPoll(p)
  \/ StreamBusError
  \/ ClientDisconnect

SpecStream == InitCrash /\ [][NextStream]_vars

\* C17 (as claimed): the consumer of a stream is closed on every way the stream
\* ends; with a filter only events of that portfolio are emitted, each
\* partition's events in egress order; and an undecodable egress message is
\* skipped, it never ends the stream.
C17_StreamClosesFiltersAndSkips ==
  stream # NoStream =>
    /\ stream.state = "closed" => stream.consumer = "closed"
    /\ \A i \in 1..Len(stream.emitted) :
         LET at == stream.emitted[i]
             msg == egress[at.partition][at.offset]
         IN /\ stream.portfolio_id # "" =>
                 (~IsForeign(msg) /\ msg.value.portfolio_id = stream.portfolio_id)
            /\ \A j \in 1..(i - 1) :
                 stream.emitted[j].partition = at.partition =>
                   stream.emitted[j].offset < at.offset
    /\ stream.state = "closed" => stream.end \in {"client disconnect", "bus error"}

\* ------------------------------------------------ api/routers/portfolio.py
\* config/constants.py: the topic the dataflow's KafkaSource reads
INPUT_TOPIC == "portfolio-updates-v2"

\* the topic of the older API (risk_api.py)
UpdateTopic_Legacy == "portfolio-updates"

\* kafka_producer.produce('portfolio-updates-v2', ...)
UpdateTopic == "portfolio-updates-v2"

\* POST /portfolio/update: the body is validated against the Portfolio model
\* before the handler runs (422); 503 without a producer; else produce, flush
\* and answer with the accepted id
update_portfolio(portfolio) ==
  IF ~(portfolio.json /\ PortfolioValid(portfolio)) THEN [status |-> 422, body |-> None]
  ELSE IF ~deps.kafka_producer THEN [status |-> 503, body |-> None]
  ELSE [status |-> 200, body |-> [status |-> "success", portfolio_id |-> portfolio.id]]

UpdatePortfolio(portfolio) ==
  /\ Produced < MaxE2EIngress
  /\ LET r == update_portfolio(portfolio)
         delivered == r.status = 200 /\ up.kafka /\ UpdateTopic = INPUT_TOPIC
         p == IngressPartition(portfolio, Produced, InPartitions)
         msg == [key |-> portfolio.id, value |-> portfolio, seq |-> Produced + 1]
     IN /\ ingress' = IF delivered THEN [ingress EXCEPT ![p] = Append(@, msg)] ELSE ingress
        /\ resp' = [seq |-> Produced + 1] @@ Response("update", portfolio.id, r.status, r.body)
  /\ UNCHANGED <<egress, pos, pc, cur, redis_client, cache, expireAt, gm, perf, tracker, bench,
                 clock, crashes, hist, hsetWrites, cacheSrc>>
  /\ UNCHANGED <<up, deps, scan, stream, applied>>

\* a worker's next step under nominal conditions: the cache answers, and the
\* wall clock does not step backwards during a calculation
WorkerStep(w) ==
  /\ \/ Calculate(w)
     \/ CacheHset(w)
     \/ CacheExpire(w)
     \/ CacheHincrby(w)
     \/ CacheHincrbyfloat(w)
     \/ Output(w)
  /\ \A s \in 1..MaxIngress : /\ hist'[s].cache # "failed"
                              /\ hist'[s].outcome # "compute_skipped"

NextE2E ==
  \/ Startup
  \/ \E portfolio \in Payloads : UpdatePortfolio(portfolio)
  \/ \E w \in Workers : WorkerStep(w)
  \/ Tick
  \/ \E id \in PortfolioIds : GetPortfolioRisk(id)

\* the workers of the dataflow keep polling and running their steps
SpecE2E == InitCrash /\ [][NextE2E]_vars /\ \A w \in Workers : WF_vars(WorkerStep(w))

\* the ingress message with sequence number s
IngressMessages == UNION {{ingress[p][i] : i \in 1..Len(ingress[p])} : p \in Partitions}
\* snapshot s is on the ingress topic and no worker has taken it yet
Posted(s) == (\E m \in IngressMessages : m.seq = s) /\ hist[s].outcome = "pending"

\* GET /risk/{id} answers 200 with the numbers computed from the snapshot s
Served(s) ==
  \E m \in IngressMessages :
    /\ m.seq = s
    /\ LET r == get_portfolio_risk(m.key)
           nums == RiskNumbersOf[m.value]
       IN /\ r.status = 200
          /\ cacheSrc[PortfolioKey(m.key)] = s
          /\ r.body.portfolio_id = m.value.id
          /\ r.body.advisor_id = m.value.advisor_id
          /\ r.body.risk_number = nums.risk_number
          /\ r.body.var_95 = ParseFloat(Str(nums.var_95))
          /\ r.body.expected_return = ParseFloat(Str(nums.expected_return))
          /\ r.body.volatility = ParseFloat(Str(nums.volatility))
          /\ r.body.sharpe_ratio = ParseFloat(Str(nums.sharpe_ratio))

FrameFields == {"var_95", "expected_return", "volatility", "sharpe_ratio",
                "downside_percentage", "portfolio_beta", "downside_capture"}

\* C21: two portfolios that differ only in risk_tolerance yield results that
\* differ at most in risk_number: var_95, expected_return, volatility,
\* sharpe_ratio, downside_percentage, portfolio_beta and downside_capture are
\* equal in the numbers computed, in the cached record and (for the fields the
\* egress value carries) in the egress message.
C21_ToleranceChangesOnlyRiskNumber ==
  (applied.fn = "calculate_portfolio_risk" /\ applied.output # None) =>
    \A t \in RiskTolerance :
      LET mine == applied.output
          other == calculate_portfolio_risk([applied.input EXCEPT !.risk_tolerance = t])
      IN /\ \A f \in FrameFields :
              /\ mine.nums[f] = other.nums[f]
              /\ mine.cached[f] = other.cached[f]
              /\ f \in DOMAIN mine.egress => mine.egress[f] = other.egress[f]
         /\ \A f \in DOMAIN mine.cached \ {"risk_number"} : mine.cached[f] = other.cached[f]
         /\ \A f \in DOMAIN mine.egress \ {"risk_number"} : mine.egress[f] = other.egress[f]

\* a Conservative snapshot whose risk number differs from that of the same
\* snapshot with tolerance Aggressive
C21_Witness ==
  /\ applied.fn = "calculate_portfolio_risk" /\ applied.output # None
  /\ applied.input.risk_tolerance = "Conservative"
  /\ Len(applied.input.positions) = 3
  /\ applied.output.cached.risk_number #
       calculate_portfolio_risk([applied.input EXCEPT !.risk_tolerance = "Aggressive"]).cached.risk_number

\* C22: the correlation matrix of a position list is square, symmetric, has 1
\* on the diagonal, and every off-diagonal entry is base - 0.1*min(|beta_i -
\* beta_j|, 1) clamped to [0.10, 0.95], base 0.7 for equal sectors, else 0.3.
C22_CorrelationMatrix ==
  applied.fn = "calculate_correlation_matrix" =>
    LET ps == applied.input
        n == Len(ps)
        C == applied.output
        beta(i) == get_security_characteristics(ps[i].symbol).beta
        diff(i, j) == IF beta(i) >= beta(j) THEN beta(i) - beta(j) ELSE beta(j) - beta(i)
        raw(i, j) == (IF ps[i].sector = ps[j].sector THEN 70 ELSE 30)
                       - (IF diff(i, j) < 10 THEN diff(i, j) ELSE 10)
        clamp(x) == IF x < 10 THEN 10 ELSE IF x > 95 THEN 95 ELSE x
    IN /\ Len(C) = n
       /\ \A i \in 1..n :
            /\ Len(C[i]) = n
            /\ C[i][i] = 100
            /\ \A j \in 1..n :
                 /\ C[i][j] = C[j][i]
                 /\ i # j => (C[i][j] = clamp(raw(i, j)) /\ C[i][j] \in 10..95)

\* a matrix of three positions with a same-sector pair and a pair of different
\* sectors
C22_Witness ==
  /\ applied.fn = "calculate_correlation_matrix"
  /\ Len(applied.input) = 3
  /\ applied.output[1][2] = 68
  /\ applied.output[1][3] = 25

\* the defaults expected for symbols that are not in the reference table
ExpectedDefaults ==
  NEWAI :> SecChars(30, 12, 13) @@
  <<"n","e","w","a","i">> :> SecChars(30, 12, 13) @@
  <<"T","E","C","H","B","A","N","K">> :> SecChars(30, 12, 13) @@
  <<"M","Y","B","A","N","K">> :> SecChars(22, 9, 11) @@
  <<"B","I","O","F","U","N","D">> :> SecChars(22, 9, 11) @@
  <<"O","I","L","M","E","D">> :> SecChars(20, 9, 8) @@
  <<"S","O","L","A","R">> :> SecChars(32, 8, 13) @@
  <<"G","a","s">> :> SecChars(32, 8, 13) @@
  XYZ :> SecChars(20, 8, 10) @@
  <<"a","a","p","l">> :> SecChars(20, 8, 10) @@
  <<>> :> SecChars(20, 8, 10)

\* C23: the lookup is total: a symbol of the reference table returns its
\* entry, any other symbol the default of the first matching group, tested
\* case-insensitively in the order tech, financial, health, energy, else
\* (0.20, 0.08, 1.0); every triple has volatility in [0,1], expected_return in
\* [-1,1] and beta in [0,3]. "NEWAI" gives (0.30, 0.12, 1.3).
C23_SecurityLookup ==
  applied.fn = "get_security_characteristics" =>
    LET symbol == applied.input
        chars == applied.output
    IN /\ DOMAIN chars = {"volatility", "expected_return", "beta"}
       /\ symbol \in DOMAIN SECURITY_CHARACTERISTICS => chars = SECURITY_CHARACTERISTICS[symbol]
       /\ symbol \notin DOMAIN SECURITY_CHARACTERISTICS =>
            (symbol \in DOMAIN ExpectedDefaults /\ chars = ExpectedDefaults[symbol])
       /\ chars.volatility \in 0..100
       /\ chars.expected_return \in -100..100
       /\ chars.beta \in 0..30

\* the lookup of a lower-case symbol that is not in the table and matches a
\* tech pattern
C23_Witness ==
  /\ applied.fn = "get_security_characteristics"
  /\ applied.input = <<"n","e","w","a","i">>
  /\ applied.output = SecChars(30, 12, 13)

\* C24 (as claimed): every accepted single-position portfolio whose security
\* has volatility sigma has portfolio volatility V = sigma and downside
\* percentage D = -1.64 * sigma * 100, for every weight validation accepts.
C24_SinglePositionVolatility ==
  (/\ applied.fn = "calculate_portfolio_risk" /\ applied.output # None
   /\ Len(applied.input.positions) = 1) =>
    LET sigma == get_security_characteristics(applied.input.positions[1].symbol).volatility
    IN /\ applied.output.nums.volatility = sigma * 100
       /\ applied.output.nums.downside_percentage = -(Z_SCORE * sigma)

\* C29: the base mapping is monotone: a larger loss never gets a smaller risk
\* number, across the zone boundaries d = 2 and d = 18 and after truncation;
\* and for every base number r in [20,100], Aggressive(r) <= Moderate(r) = r <=
\* Conservative(r).
C29_Monotone ==
  /\ (applied.fn = "downside_percentage_to_risk_number" /\ applied.input <= 0
      /\ applied.input - 1 \in Downsides) =>
       downside_percentage_to_risk_number(applied.input - 1) >= applied.output
  /\ applied.fn = "_apply_risk_tolerance_adjustment" =>
       LET r == applied.input[1]
       IN /\ apply_risk_tolerance_adjustment(r, "Aggressive")
               <= apply_risk_tolerance_adjustment(r, "Moderate")
          /\ apply_risk_tolerance_adjustment(r, "Moderate") = r
          /\ r <= apply_risk_tolerance_adjustment(r, "Conservative")

\* the mapping applied at the boundary d = 18 of the middle and the last zone
C29_Witness ==
  /\ applied.fn = "downside_percentage_to_risk_number"
  /\ applied.input = -1800
  /\ applied.output = 85
  /\ downside_percentage_to_risk_number(-1801) = 85

\* ===================================================================
\* The performance tracker shared by threads (utils/performance.py)
\* ===================================================================
PerfWindow == 2
MaxRecords == 3
MaxResets == 1
LogInterval == 2
Threads == {"t1", "t2"}
Latencies == {1, 3}
Elapsed == {0, 1}

\* the threads' positions: "idle", "check" (record_message has returned,
\* log_stats is next), "log" (the interval test of log_stats has passed)
IdleThread == [pc |-> "idle", read |-> 0]

\* PerformanceTracker(window_size), with the history kept beside it: the
\* latencies recorded since the last reset, the counter values reached, the
\* log lines written, the last answer of get_stats
TrackerCreate(window_size) ==
  /\ tracker = NoTracker
  /\ tracker' = [state |-> "live",
                 t |-> PerformanceTracker(window_size),
                 thread |-> [th \in Threads |-> IdleThread],
                 recorded |-> <<>>,
                 reached |-> <<>>,
                 lines |-> <<>>,
                 stats |-> None,
                 calls |-> 0,
                 resets |-> 0]
  /\ UNCHANGED <<ingress, egress, pos, pc, cur, redis_client, cache, expireAt, gm, perf,
                 clock, crashes, hist, hsetWrites, cacheSrc, bench>>
  /\ UNCHANGED apiVars

\* a thread calls record_message(latency_ms): one step, under the lock
Record(th, latency_ms) ==
  /\ tracker.state = "live"
  /\ tracker.thread[th].pc = "idle"
  /\ tracker.calls < MaxRecords
  /\ LET t == record_message(tracker.t, latency_ms)
     IN tracker' = [tracker EXCEPT
                      !.t = t,
                      !.thread[th] = [pc |-> "check", read |-> 0],
                      !.recorded = Append(@, latency_ms),
                      !.reached = Append(@, t.messages_processed),
                      !.calls = @ + 1]
  /\ UNCHANGED <<ingress, egress, pos, pc, cur, redis_client, cache, expireAt, gm, perf,
                 clock, crashes, hist, hsetWrites, cacheSrc, bench>>
  /\ UNCHANGED apiVars

\* PerformanceTracker.get_stats: one step, under the lock
get_stats(t, elapsed) ==
  IF elapsed <= 0
    THEN [messages_processed |-> 0, throughput_per_second |-> 0, avg_latency_ms |-> 0,
          recent_avg_latency_ms |-> 0, uptime_seconds |-> 0]
    ELSE [messages_processed |-> t.messages_processed,
          throughput_per_second |-> t.messages_processed \div elapsed,
          avg_latency_ms |->
            IF t.messages_processed > 0
              THEN t.total_processing_time \div t.messages_processed ELSE 0,
          recent_avg_latency_ms |->
            IF Len(t.recent_latencies) > 0
              THEN SumSeq(t.recent_latencies) \div Len(t.recent_latencies) ELSE 0,
          uptime_seconds |-> elapsed]

\* log_stats(interval), its test: messages_processed is read without the lock
LogCheck(th, interval) ==
  /\ tracker.state = "live"
  /\ tracker.thread[th].pc = "check"
  /\ LET n == tracker.t.messages_processed
     IN tracker' = [tracker EXCEPT !.thread[th] =
                      IF n % interval = 0 /\ n > 0
                        THEN [pc |-> "log", read |-> n]
                        ELSE IdleThread]
  /\ UNCHANGED <<ingress, egress, pos, pc, cur, redis_client, cache, expireAt, gm, perf,
                 clock, crashes, hist, hsetWrites, cacheSrc, bench>>
  /\ UNCHANGED apiVars

\* log_stats(interval), its body: get_stats under the lock, then logger.info
LogEmit(th, elapsed) ==
  /\ tracker.state = "live"
  /\ tracker.thread[th].pc = "log"
  /\ LET stats == get_stats(tracker.t, elapsed)
     IN tracker' = [tracker EXCEPT
                      !.thread[th] = IdleThread,
                      !.lines = Append(@, [at |-> tracker.thread[th].read,
                                           processed |-> stats.messages_processed])]
  /\ UNCHANGED <<ingress, egress, pos, pc, cur, redis_client, cache, expireAt, gm, perf,
                 clock, crashes, hist, hsetWrites, cacheSrc, bench>>
  /\ UNCHANGED apiVars

\* another thread calls get_stats()
GetStats(elapsed) ==
  /\ tracker.state = "live"
  /\ tracker' = [tracker EXCEPT !.stats = get_stats(tracker.t, elapsed)]
  /\ tracker'.stats # tracker.stats
  /\ UNCHANGED <<ingress, egress, pos, pc, cur, redis_client, cache, expireAt, gm, perf,
                 clock, crashes, hist, hsetWrites, cacheSrc, bench>>
  /\ UNCHANGED apiVars

\* PerformanceTracker.reset: one step, under the lock
reset(t) ==
  [messages_processed |-> 0, total_processing_time |-> 0, recent_latencies |-> <<>>,
   window_size |-> t.window_size]

\* another thread calls reset()
Reset ==
  /\ tracker.state = "live"
  /\ tracker.resets < MaxResets
  /\ tracker' = [tracker EXCEPT !.t = reset(tracker.t), !.recorded = <<>>,
                                !.resets = @ + 1]
  /\ UNCHANGED <<ingress, egress, pos, pc, cur, redis_client, cache, expireAt, gm, perf,
                 clock, crashes, hist, hsetWrites, cacheSrc, bench>>
  /\ UNCHANGED apiVars

NextPerf ==
  \/ \E window_size \in {1, PerfWindow} : TrackerCreate(window_size)
  \/ \E th \in Threads, latency_ms \in Latencies : Record(th, latency_ms)
  \/ \E th \in Threads : LogCheck(th, LogInterval)
  \/ \E th \in Threads, elapsed \in Elapsed : LogEmit(th, elapsed)
  \/ \E elapsed \in Elapsed : GetStats(elapsed)
  \/ Reset

SpecPerf == Init /\ [][NextPerf]_vars

\* the last n entries of a sequence
LastN(s, n) == SubSeq(s, Len(s) - n + 1, Len(s))

\* the multiples of the interval among the counter values reached
Multiples(reached, interval) == SelectSeq(reached, LAMBDA n : n % interval = 0 /\ n > 0)

Quiet == \A th \in Threads : tracker.thread[th].pc = "idle"

\* C26 (as claimed): with threads that only call record_message and then
\* log_stats, once every thread is past its log check there is exactly one
\* log line for each multiple of the interval that the counter reached, none
\* skipped and none logged twice.
C26_OneLinePerMultiple ==
  (tracker.state = "live" /\ tracker.resets = 0 /\ Quiet) =>
    Len(tracker.lines) = Len(Multiples(tracker.reached, LogInterval))

\* C27: under every interleaving of record_message, get_stats and reset no
\* update is lost (the counter is the number of records since the last reset,
\* the cumulative time their sum), the window holds the last
\* min(count, window_size) latencies, a reset leaves zero counters and an
\* empty window, and get_stats answers zero averages, without dividing by
\* zero, when nothing is recorded.
C27_TrackerConsistent ==
  [][tracker'.state = "live" =>
       LET t == tracker'.t
           count == Len(tracker'.recorded)
       IN /\ t.messages_processed = count
          /\ t.total_processing_time = SumSeq(tracker'.recorded)
          /\ t.recent_latencies = LastN(tracker'.recorded, Min(count, t.window_size))
          /\ Reset => /\ t.messages_processed = 0
                      /\ t.total_processing_time = 0
                      /\ t.recent_latencies = <<>>
          /\ \A elapsed \in Elapsed :
               LET stats == get_stats(t, elapsed)
               IN /\ count = 0 => stats.avg_latency_ms = 0 /\ stats.recent_avg_latency_ms = 0
                  /\ (count > 0 /\ elapsed > 0) =>
                       /\ stats.avg_latency_ms = SumSeq(tracker'.recorded) \div count
                       /\ stats.messages_processed = count]_vars

C27_Witness ==
  /\ tracker.state = "live"
  /\ tracker.resets = 1
  /\ Len(tracker.recorded) > tracker.t.window_size
  /\ tracker.stats # None
  /\ \E th \in Threads : tracker.thread[th].pc = "check"

\* ===================================================================
\* The benchmark workers (benchmark_kafka_parallel.py, benchmark_kafka_sink.py)
\* ===================================================================
\* the flush interval (1000 in both workers) and the producer's
\* queue.buffering.max.messages (100000 and 1000000), scaled down with their
\* order kept: the queue holds more than one flush interval
FlushEvery == 2
QueueMax == 3
MaxBenchMessages == 5
MaxBenchInput == 6
Variants == {"parallel", "sink"}

\* the worker is entered: consumer and producer are set up, the counters zeroed
BenchStart(variant, num_messages) ==
  /\ bench = NoBench
  /\ bench' = [state |-> "run", variant |-> variant, num_messages |-> num_messages,
               offset |-> 0, derived |-> 0, messages_processed |-> 0,
               queue |-> 0, delivered |-> 0, skipped |-> 0,
               unflushed |-> 0, flushes |-> 0]
  /\ UNCHANGED <<ingress, egress, pos, pc, cur, redis_client, cache, expireAt, gm, perf,
                 clock, crashes, hist, hsetWrites, cacheSrc, tracker>>
  /\ UNCHANGED apiVars

\* a worker that never flushes inside its loop
periodic_flush_Never(variant, before, after) == FALSE

\* "if messages_processed % 1000 == 0: producer.flush()": the parallel worker
\* tests the counter after its increment, the sink worker before it
periodic_flush(variant, before, after) ==
  IF variant = "parallel" THEN after % FlushEvery = 0 ELSE before % FlushEvery = 0

\* Producer.produce raises BufferError when the queue holds
\* queue.buffering.max.messages messages
queue_full(b) == b.queue >= QueueMax

\* producer.flush(): returns when every queued message is delivered
flush(b) ==
  [b EXCEPT !.delivered = @ + b.queue, !.queue = 0, !.unflushed = 0, !.flushes = @ + 1]

\* one turn of the loop on a record polled from the ingress topic: parse and
\* compute, produce, count, flush when due; any exception skips the record
loop_body(b, valid) ==
  LET polled == [b EXCEPT !.offset = @ + 1]
  IN IF ~valid THEN polled
     ELSE LET computed == [polled EXCEPT !.derived = @ + 1]
          IN IF queue_full(computed)
               THEN [computed EXCEPT !.skipped = @ + 1]
               ELSE LET produced == [computed EXCEPT !.queue = @ + 1, !.unflushed = @ + 1,
                                                     !.messages_processed = @ + 1]
                    IN IF periodic_flush(b.variant, b.messages_processed,
                                         produced.messages_processed)
                         THEN flush(produced) ELSE produced

BenchProcess(valid) ==
  /\ bench.state = "run"
  /\ bench.messages_processed < bench.num_messages
  /\ bench.offset < MaxBenchInput
  /\ bench' = loop_body(bench, valid)
  /\ UNCHANGED <<ingress, egress, pos, pc, cur, redis_client, cache, expireAt, gm, perf,
                 clock, crashes, hist, hsetWrites, cacheSrc, tracker>>
  /\ UNCHANGED apiVars

\* the producer's background thread delivers a queued message to the broker
BrokerDeliver ==
  /\ bench.state = "run"
  /\ bench.queue > 0
  /\ bench' = [bench EXCEPT !.queue = @ - 1, !.delivered = @ + 1]
  /\ UNCHANGED <<ingress, egress, pos, pc, cur, redis_client, cache, expireAt, gm, perf,
                 clock, crashes, hist, hsetWrites, cacheSrc, tracker>>
  /\ UNCHANGED apiVars

\* the loop ends: "producer.flush()" and "consumer.close()"
BenchExit ==
  /\ bench.state = "run"
  /\ bench.messages_processed >= bench.num_messages
  /\ bench' = [flush(bench) EXCEPT !.state = "done"]
  /\ UNCHANGED <<ingress, egress, pos, pc, cur, redis_client, cache, expireAt, gm, perf,
                 clock, crashes, hist, hsetWrites, cacheSrc, tracker>>
  /\ UNCHANGED apiVars

NextBench ==
  \/ \E variant \in Variants, num_messages \in 1..MaxBenchMessages :
       BenchStart(variant, num_messages)
  \/ \E valid \in BOOLEAN : BenchProcess(valid)
  \/ BrokerDeliver
  \/ BenchExit

SpecBench == Init /\ [][NextBench]_vars

EgressMessages ==
  UNION {{egress[p][i] : i \in 1..Len(egress[p])} : p \in DOMAIN egress}

\* worker w issues the HSET for the result it holds
IssuesHset(w) ==
  /\ pc[w] = "hset"
  /\ pc'[w] # "hset"
  /\ hist'[cur[w].seq].attempted

\* C30: the cache write of a result is attempted in the compute step, before
\* the result reaches the sink: every message on the egress topic comes from
\* a result whose HSET was issued before (or, without a Redis client, whose
\* _cache_results call returned at once), and a worker issues the HSET for a
\* portfolio only when that portfolio's earlier results are on the egress
\* topic and this one is not, so the writes are in the order of the messages.
C30_CacheWriteBeforeEgress ==
  [][/\ \A m \in EgressMessages' :
          hist'[m.src].attempted \/ (~redis_client /\ hist'[m.src].cache = "noclient")
     /\ \A w \in Workers :
          IssuesHset(w) =>
            /\ \A m \in EgressMessages :
                 (m.from = w /\ m.key = cur[w].key) => m.src < cur[w].seq
            /\ LET before == cacheSrc[PortfolioKey(cur[w].key)]
               IN before # 0 => \E m \in EgressMessages : m.src = before /\ m.key = cur[w].key
     /\ \A m \in EgressMessages' \ EgressMessages :
          /\ cur[m.from].seq = m.src
          /\ pc[m.from] = "output"]_vars

C30_Witness ==
  /\ redis_client
  /\ \E m1, m2 \in EgressMessages :
       /\ m1.key = m2.key
       /\ m1.from = m2.from
       /\ m1.src < m2.src
       /\ hist[m1.src].attempted
       /\ hist[m2.src].attempted
       /\ cacheSrc[PortfolioKey(m2.key)] = m2.src

\* ===================================================================
\* Determinism of the computed fields
\* ===================================================================
NextDet ==
  \/ \E payload \in DetPayloads : IngressProduce(payload)
  \/ \E w \in Workers : Calculate(w)
  \/ \E w \in Workers : CacheHset(w)
  \/ \E w \in Workers : CacheExpire(w)
  \/ \E w \in Workers : CacheHincrby(w)
  \/ \E w \in Workers : CacheHincrbyfloat(w)
  \/ \E w \in Workers : Output(w)
  \/ Tick

SpecDet == Init /\ [][NextDet]_vars

\* what the numbers may depend on: positions in order, total_value, risk_tolerance
Snapshot(portfolio) ==
  [positions |-> portfolio.positions, total_value |-> portfolio.total_value,
   risk_tolerance |-> portfolio.risk_tolerance]

\* the snapshot of ingress message s
SnapshotOf(s) == Snapshot((CHOOSE m \in IngressMessages : m.seq = s).value)

\* the fields of a result on the egress topic, and of a cached record
MessageFields(value) ==
  [risk_number |-> value.risk_number, var_95 |-> value.var_95,
   volatility |-> value.volatility, expected_return |-> value.expected_return,
   sharpe_ratio |-> value.sharpe_ratio]

RecordFields(hash) ==
  [risk_number |-> hash.risk_number, var_95 |-> hash.var_95,
   volatility |-> hash.volatility, expected_return |-> hash.expected_return,
   sharpe_ratio |-> hash.sharpe_ratio,
   downside_percentage |-> hash.downside_percentage,
   portfolio_beta |-> hash.portfolio_beta]

Cached == {k \in CacheKeys : cache[k] # EmptyHash}

====
